---- MODULE Spec2Model ----
(***************************************************************************)
(* ModelForge: the format-conversion fallback chains of file_converter.py, *)
(* generate_3d_model of model_generator.py, _add_details of the advanced   *)
(* generator and the GenerationJob status life cycle of routes.py and      *)
(* tasks.py.                                                               *)
(***************************************************************************)
EXTENDS Integers, Sequences, FiniteSets, TLC

\* Largest job id the conversion chains are called with.
MaxJobId == 2

VARIABLES
    \* ---- file_converter.py: one call of convert_to_fbx / convert_to_blend
    output_format,   \* "fbx" (convert_to_fbx) or "blend" (convert_to_blend)
    obj_path,        \* the obj_path argument
    job_id,          \* the job_id argument
    conv_env,        \* what the collaborators of this call do (Blender, trimesh, export engine)
    conv_pc,         \* the tier the call is about to try, or "done"
    tried,           \* the tiers attempted so far, each with its outcome
    conv_result,     \* what the call handed to its caller
    \* ---- advanced_generator.py: one call of _add_details
    base_mesh,       \* the base_mesh argument
    shape_info,      \* the shape_info argument
    config,          \* the config argument (a GenerationConfig)
    detailed_mesh,   \* the local detailed_mesh
    det_pc,          \* the statement _add_details is about to run, or "done"
    applied,         \* the detail passes that were called
    det_result,      \* the mesh _add_details returned
    \* ---- model_generator.py: one call of generate_3d_model
    prompt_arg,      \* the prompt argument
    complexity_arg,  \* the complexity argument
    prompt,          \* the local prompt (stripped and cut after validation)
    complexity,      \* the local complexity (clamped after validation)
    engine,          \* the local engine
    USE_ADVANCED,    \* the advanced AI modules were imported
    reference_image, \* a reference image path was given and the file exists
    mesh,            \* the local mesh: "None" or the generator that built it
    gen_config,      \* the GenerationConfig handed to the advanced generator
    output_path,     \* the local output_path
    files,           \* the non-empty files the call has written
    failed,          \* the steps of the call that failed
    gen_pc,          \* the step generate_3d_model is about to run, or "done"
    gen_result,      \* what the call handed to its caller
    \* ---- models.py, routes.py, tasks.py: the GenerationJob rows
    status,          \* GenerationJob.status of each row, as committed
    origin,          \* the code path that inserted the row
    job_pc,          \* where the code path working on the row stands
    \* ---- advanced_generator.py: one call of _analyze_prompt
    an_prompt, \* the prompt argument, a sequence of characters
    analysis,  \* the dict _analyze_prompt returned
    an_pc,     \* "call" before the call, "done" after it
    \* ---- tasks.py: runs of generate_3d_model_task
    row_status,   \* GenerationJob.status of the run's row, as committed
    row_error,    \* GenerationJob.error_message of the row, as committed
    job_status,   \* job.status of the session's object
    session,      \* "active", or "inactive" after a flush that failed
    cache_entry,  \* a new AssetCache object is pending in the session
    cache_row,    \* an AssetCache row with the prompt's cache key is committed
    cache_file,   \* the file of that row exists
    access_count, \* AssetCache.access_count of that row
    cache_hits,   \* the runs that were served from that row
    reports,      \* the values of current reported to the task-state store, in order
    exc,          \* str(e) of the exception the except block caught
    task_pc,      \* where the run stands
    task_project, \* the project_id argument
    runs,         \* the runs started so far
    \* ---- tasks.py: one AssetQueue or AIPack batch
    batch_kind,      \* "queue" or "pack"
    batch_size,      \* the number of member assets
    member_status,   \* GenerationJob.status of each member row, as committed
    batch_status,    \* AssetQueue.status or AIPack.status
    zip_path,        \* zip_path of the batch row, "" for None
    completed_items, \* queue.completed_items, or len(generated_assets)
    batch_i,         \* the member the loop is at
    batch_pc,        \* where the task stands
    \* ---- routes.py: one WebhookEndpoint and the requests to its receiver
    wh_exists,     \* the WebhookEndpoint row exists
    secret_key,    \* WebhookEndpoint.secret_key
    is_active,     \* WebhookEndpoint.is_active
    trigger_count, \* WebhookEndpoint.trigger_count
    rows_created,  \* the rows the receiver has added
    wh_request,    \* the last request to the receiver
    wh_code,       \* the HTTP status of the last response
    wh_requests,   \* the requests handled so far
    \* ---- bridge_service.py: the polling loop of upload_to_open_cloud
    now,           \* time.time(), in ticks
    deadline,      \* deadline, in ticks
    poll_timeout,  \* the query parameter poll_timeout, in seconds
    poll_interval, \* the query parameter poll_interval, in ticks
    last_status,   \* "status" once a poll got a status code outside 2xx
    poll_done,     \* the last poll response reported done true
    poll_code,     \* the HTTP status of the handler's response
    poll_pc,       \* where the handler stands
    \* ---- enhanced_bridge.py: the jobs of the v2 API
    bridge_jobs,    \* jobs: status, completed_at and messages of each job
    bridge_request, \* the last request or background run
    bridge_code,    \* the HTTP status of the last response
    bridge_clock,   \* datetime.now(), counted in steps
    \* ---- scripts/video_processor.py: one call of a VideoProcessor entry point
    video_entry,       \* the entry point that is called
    video_exists,      \* os.path.exists(video_path)
    video_opens,       \* cv2.VideoCapture(video_path).isOpened()
    video_callback,    \* a progress_callback is passed
    remove_background, \* the argument remove_background
    detect_objects,    \* the argument detect_objects
    video_initialized, \* self._initialized and the modules that were set up
    callback_calls,    \* the calls of progress_callback
    video_raised,      \* the exception that left the call, "none" when it returned
    video_pc,          \* "call" before the call, "done" after it
    \* ---- tasks.py: executions of process_asset_queue_task for one queue
    queue_completed_items, \* AssetQueue.completed_items, as committed
    queue_total_items,     \* AssetQueue.total_items
    queue_assets,          \* GenerationJob.status of each member, as committed
    queue_status,          \* AssetQueue.status, as committed
    queue_zip,             \* AssetQueue.zip_path, "" for None
    run_pc,                \* where each execution stands
    run_i,                 \* the asset each execution is at
    run_loaded,            \* completed_items as each session has loaded it
    marked,                \* the commits that marked an asset completed
    stale_writes,          \* those of them whose session held an outdated counter
    \* ---- advanced_generator.py: one call of _procedural_generation
    proc_requested, \* config.complexity as the caller passed it
    proc_config,    \* the GenerationConfig object, complexity and detail_level
    proc_geometry,  \* what the geometry generator did, "none" before
    proc_tested,    \* the complexity _add_details compared, 0 before
    proc_passes,    \* the detail passes _add_details ran
    proc_pc,        \* the statement the call is about to run, or "done"
    \* ---- routes.py: handlers that serve finished jobs and queues
    guarded_job,      \* the GenerationJob row: status, files present, results stored
    guarded_queue,    \* the AssetQueue row: status, zip_path set, zip file present
    guarded_response, \* the last answer: handler, status code, whether it got past its check
    guarded_requests, \* the requests handled so far
    \* ---- routes.py: the prompts of inserted GenerationJob rows
    prompt_rows,        \* the GenerationJob rows: the handler that inserted each and its prompt
    queue_prompts_left, \* the prompts of the /api/queue request not inserted yet
    prompt_code         \* the status code of the last answer, 0 while a request runs

conv_vars == <<output_format, obj_path, job_id, conv_env, conv_pc, tried, conv_result>>

det_vars == <<base_mesh, shape_info, config, detailed_mesh, det_pc, applied, det_result>>

gen_vars == <<prompt_arg, complexity_arg, prompt, complexity, engine, USE_ADVANCED,
              reference_image, mesh, gen_config, output_path, files, failed,
              gen_pc, gen_result>>

job_vars == <<status, origin, job_pc>>

an_vars == <<an_prompt, analysis, an_pc>>

task_vars == <<row_status, row_error, job_status, session, cache_entry,
               cache_row, cache_file, access_count, cache_hits, reports, exc,
               task_pc, task_project, runs>>

batch_vars == <<batch_kind, batch_size, member_status, batch_status, zip_path,
                completed_items, batch_i, batch_pc>>

wh_vars == <<wh_exists, secret_key, is_active, trigger_count, rows_created,
             wh_request, wh_code, wh_requests>>

poll_vars == <<now, deadline, poll_timeout, poll_interval, last_status,
               poll_done, poll_code, poll_pc>>

bridge_vars == <<bridge_jobs, bridge_request, bridge_code, bridge_clock>>

video_vars == <<video_entry, video_exists, video_opens, video_callback,
                remove_background, detect_objects, video_initialized,
                callback_calls, video_raised, video_pc>>

queue_vars == <<queue_completed_items, queue_total_items, queue_assets,
                queue_status, queue_zip, run_pc, run_i, run_loaded, marked,
                stale_writes>>

proc_vars == <<proc_requested, proc_config, proc_geometry, proc_tested,
               proc_passes, proc_pc>>

guard_vars == <<guarded_job, guarded_queue, guarded_response, guarded_requests>>

prompt_vars == <<prompt_rows, queue_prompts_left, prompt_code>>

vars == <<conv_vars, det_vars, gen_vars, job_vars, an_vars, task_vars,
          batch_vars, wh_vars, poll_vars, bridge_vars, video_vars, queue_vars,
          proc_vars, guard_vars, prompt_vars>>

\* What a conversion call, a call of _add_details and a call of
\* generate_3d_model leave alone, and the same for the other parts.
not_conv == <<det_vars, gen_vars, job_vars, an_vars, task_vars, batch_vars,
              wh_vars, poll_vars, bridge_vars, video_vars, queue_vars,
              proc_vars, guard_vars, prompt_vars>>

not_det == <<conv_vars, gen_vars, job_vars, an_vars, task_vars, batch_vars,
             wh_vars, poll_vars, bridge_vars, video_vars, queue_vars,
             proc_vars, guard_vars, prompt_vars>>

not_gen == <<conv_vars, det_vars, job_vars, an_vars, task_vars, batch_vars,
             wh_vars, poll_vars, bridge_vars, video_vars, queue_vars,
             proc_vars, guard_vars, prompt_vars>>

not_jobs == <<conv_vars, det_vars, gen_vars, an_vars, task_vars, batch_vars,
              wh_vars, poll_vars, bridge_vars, video_vars, queue_vars,
              proc_vars, guard_vars, prompt_vars>>

not_an == <<conv_vars, det_vars, gen_vars, job_vars, task_vars, batch_vars,
            wh_vars, poll_vars, bridge_vars, video_vars, queue_vars,
            proc_vars, guard_vars, prompt_vars>>

not_task == <<conv_vars, det_vars, gen_vars, job_vars, an_vars, batch_vars,
              wh_vars, poll_vars, bridge_vars, video_vars, queue_vars,
              proc_vars, guard_vars, prompt_vars>>

not_batch == <<conv_vars, det_vars, gen_vars, job_vars, an_vars, task_vars,
               wh_vars, poll_vars, bridge_vars, video_vars, queue_vars,
               proc_vars, guard_vars, prompt_vars>>

not_wh == <<conv_vars, det_vars, gen_vars, job_vars, an_vars, task_vars,
            batch_vars, poll_vars, bridge_vars, video_vars, queue_vars,
            proc_vars, guard_vars, prompt_vars>>

not_poll == <<conv_vars, det_vars, gen_vars, job_vars, an_vars, task_vars,
              batch_vars, wh_vars, bridge_vars, video_vars, queue_vars,
              proc_vars, guard_vars, prompt_vars>>

not_bridge == <<conv_vars, det_vars, gen_vars, job_vars, an_vars, task_vars,
                batch_vars, wh_vars, poll_vars, video_vars, queue_vars,
                proc_vars, guard_vars, prompt_vars>>

not_video == <<conv_vars, det_vars, gen_vars, job_vars, an_vars, task_vars,
               batch_vars, wh_vars, poll_vars, bridge_vars, queue_vars,
               proc_vars, guard_vars, prompt_vars>>

not_queue == <<conv_vars, det_vars, gen_vars, job_vars, an_vars, task_vars,
               batch_vars, wh_vars, poll_vars, bridge_vars, video_vars,
               proc_vars, guard_vars, prompt_vars>>

not_proc == <<conv_vars, det_vars, gen_vars, job_vars, an_vars, task_vars,
              batch_vars, wh_vars, poll_vars, bridge_vars, video_vars,
              queue_vars, guard_vars, prompt_vars>>

not_guard == <<conv_vars, det_vars, gen_vars, job_vars, an_vars, task_vars,
               batch_vars, wh_vars, poll_vars, bridge_vars, video_vars,
               queue_vars, proc_vars, prompt_vars>>

not_prompt == <<conv_vars, det_vars, gen_vars, job_vars, an_vars, task_vars,
                batch_vars, wh_vars, poll_vars, bridge_vars, video_vars,
                queue_vars, proc_vars, guard_vars>>

-----------------------------------------------------------------------------
\* Paths and call results

NoPath == [stem |-> 0, ext |-> "none"]

\* os.path.join("generated", f"model_{job_id}.<ext>")
GeneratedPath(id, ext) == [stem |-> id, ext |-> ext]

Return(p) == [kind |-> "path", path |-> p, error |-> "none"]

ReturnNone == [kind |-> "None", path |-> NoPath, error |-> "none"]

Raise(msg) == [kind |-> "raise", path |-> NoPath, error |-> msg]

NoResult == [kind |-> "pending", path |-> NoPath, error |-> "none"]

-----------------------------------------------------------------------------
\* file_converter.py

\* The collaborators of one conversion call, as the code observes them.
ConvEnv ==
    [ blender_found    : BOOLEAN,                          \* find_blender_executable() is not None
      blender_run      : {"ok", "nonzero", "timeout", "nofile"},
      obj_loads        : {"mesh", "none", "raise"},        \* trimesh.load(obj_path)
      trimesh_fbx      : {"ok", "unavailable", "raise"},   \* exporters_available / mesh.export
      EXPORT_AVAILABLE : BOOLEAN,                          \* the export engine was imported
      engine_export    : BOOLEAN ]                         \* export_engine.export_model(...)

\* find_blender_executable: a path, or None when neither PATH nor the common
\* install locations hold a Blender.
find_blender_executable == conv_env.blender_found

\* Mutant: the check for a missing Blender executable is gone.
convert_with_blender_nocheck(obj, id, fmt) ==
    CASE conv_env.blender_run = "timeout" -> Raise("Blender conversion timed out")
      [] conv_env.blender_run = "nonzero" -> Raise("Blender conversion failed")
      [] conv_env.blender_run = "nofile"  -> Raise("Output file was not created")
      [] OTHER -> Return(GeneratedPath(id, fmt))

\* Mutant: the exit code of the Blender process is not looked at.
convert_with_blender_any_exit_code(obj, id, fmt) ==
    IF ~find_blender_executable
    THEN Raise("Blender not found in system PATH")
    ELSE CASE conv_env.blender_run = "timeout" -> Raise("Blender conversion timed out")
           [] conv_env.blender_run = "nofile"  -> Raise("Output file was not created")
           [] OTHER -> Return(GeneratedPath(id, fmt))

\* convert_with_blender: raises unless Blender is found, exits 0 within the
\* timeout and leaves the output file.
convert_with_blender(obj, id, fmt) ==
    IF ~find_blender_executable
    THEN Raise("Blender not found in system PATH")
    ELSE CASE conv_env.blender_run = "timeout" -> Raise("Blender conversion timed out")
           [] conv_env.blender_run = "nonzero" -> Raise("Blender conversion failed")
           [] conv_env.blender_run = "nofile"  -> Raise("Output file was not created")
           [] OTHER -> Return(GeneratedPath(id, fmt))

\* Fallback 1 of convert_to_fbx: trimesh's own FBX exporter.
trimesh_export(obj, id) ==
    CASE conv_env.obj_loads = "raise" -> Raise("load failed")
      [] conv_env.obj_loads = "none"  -> Raise("Failed to load OBJ file")
      [] conv_env.trimesh_fbx = "unavailable" -> Raise("FBX exporter not available in trimesh")
      [] conv_env.trimesh_fbx = "raise" -> Raise("export failed")
      [] OTHER -> Return(GeneratedPath(id, "fbx"))

\* The export-engine tier of both chains.
engine_export(obj, id, fmt) ==
    CASE ~conv_env.EXPORT_AVAILABLE -> Raise("Export engine unavailable")
      [] conv_env.obj_loads = "raise" -> Raise("load failed")
      [] conv_env.obj_loads = "none"  -> Raise("Failed to load OBJ file")
      [] ~conv_env.engine_export -> Raise("Export engine failed")
      [] OTHER -> Return(GeneratedPath(id, fmt))

\* Mutant: the export engine tried before trimesh's exporter.
fbx_chain_engine_first == <<"blender", "engine", "trimesh", "passthrough">>

\* The nesting of the try/except blocks of convert_to_fbx.
fbx_chain == <<"blender", "trimesh", "engine", "passthrough">>

\* The nesting of the try/except blocks of convert_to_blend.
blend_chain == <<"blender", "engine", "passthrough">>

chain_of(fmt) == IF fmt = "fbx" THEN fbx_chain ELSE blend_chain

\* The except block a failed tier falls into.
RECURSIVE tier_after(_, _, _)
tier_after(chain, t, i) ==
    IF i >= Len(chain) THEN "done"
    ELSE IF chain[i] = t THEN chain[i + 1]
    ELSE tier_after(chain, t, i + 1)

\* Mutant: the last except block of convert_to_fbx re-raises.
fbx_fallback_reraise(obj) == Raise("Export engine failed")

\* Final fallback of convert_to_fbx: the OBJ file path.
fbx_fallback(obj) == Return(obj)

\* Mutant: convert_to_blend hands back the OBJ path, as convert_to_fbx does.
blend_fallback_obj(obj) == Return(obj)

\* Final fallback of convert_to_blend: None.
blend_fallback(obj) == ReturnNone

\* What a tier does when it is run.
run_tier(t) ==
    CASE t = "blender" -> convert_with_blender(obj_path, job_id, output_format)
      [] t = "trimesh" -> trimesh_export(obj_path, job_id)
      [] t = "engine"  -> engine_export(obj_path, job_id, output_format)
      [] OTHER -> IF output_format = "fbx" THEN fbx_fallback(obj_path)
                  ELSE blend_fallback(obj_path)

\* One tier: its result is returned unless it raised, and then the next
\* tier's except block runs.  The last tier's result ends the call.
Tier(t) ==
    /\ conv_pc = t
    /\ LET r == run_tier(t)
           nxt == tier_after(chain_of(output_format), t, 1)
       IN /\ tried' = Append(tried, [tier |-> t, ok |-> r.kind # "raise"])
          /\ IF r.kind # "raise" \/ nxt = "done"
             THEN conv_result' = r /\ conv_pc' = "done"
             ELSE conv_result' = conv_result /\ conv_pc' = nxt
    /\ UNCHANGED <<output_format, obj_path, job_id, conv_env>>
    /\ UNCHANGED not_conv

BlenderTier ==
    /\ conv_pc = "blender"
    /\ Tier("blender")

TrimeshTier ==
    /\ conv_pc = "trimesh"
    /\ Tier("trimesh")

EngineTier ==
    /\ conv_pc = "engine"
    /\ Tier("engine")

Passthrough ==
    /\ conv_pc = "passthrough"
    /\ Tier("passthrough")

ConvInit ==
    /\ output_format \in {"fbx", "blend"}
    /\ job_id \in 1..MaxJobId
    /\ obj_path \in {GeneratedPath(i, "obj") : i \in 1..MaxJobId}
    /\ conv_env \in ConvEnv
    /\ conv_pc = "blender"
    /\ tried = <<>>
    /\ conv_result = NoResult

\* No conversion call is in progress.
ConvIdle ==
    /\ output_format = "fbx"
    /\ job_id = 1
    /\ obj_path = GeneratedPath(1, "obj")
    /\ conv_env = [blender_found |-> FALSE, blender_run |-> "ok", obj_loads |-> "mesh",
                   trimesh_fbx |-> "unavailable", EXPORT_AVAILABLE |-> FALSE,
                   engine_export |-> FALSE]
    /\ conv_pc = "idle"
    /\ tried = <<>>
    /\ conv_result = NoResult

ConvNext == BlenderTier \/ TrimeshTier \/ EngineTier \/ Passthrough

-----------------------------------------------------------------------------
\* instance/ai_modules/advanced_generator.py: _add_details

\* Largest GenerationConfig.complexity _add_details is called with.
MaxConfigComplexity == 11

\* shape_info['shape_type'] values: three that get panel lines and one that
\* does not.
ShapeTypes == {"vehicle", "building", "robot", "furniture"}

\* A mesh: the object it is and the detail geometry concatenated to it.
Mesh(obj, bumps, panels, cylinders) ==
    [object |-> obj, bumps |-> bumps, panels |-> panels, cylinders |-> cylinders]

NoMesh == Mesh("none", 0, 0, 0)

\* base_mesh.copy(): another object with the same geometry.
copy(m) == [m EXCEPT !.object = "copy"]

\* if config.complexity <= 3: return base_mesh
keeps_simple(c) == c <= 3

\* Mutant: surface details from complexity 6 on.
wants_surface_details_from_6(c) == c >= 6

\* if config.complexity >= 7
wants_surface_details(c) == c >= 7

\* if config.complexity >= 8
wants_structural_details(c) == c >= 8

\* if config.complexity >= 9
wants_fine_details(c) == c >= 9

\* _add_surface_details: 20 bumps sampled on the surface.
_add_surface_details(m) == [m EXCEPT !.bumps = @ + 20]

\* _add_structural_details: 5 panel lines for vehicles, buildings and robots,
\* the mesh itself for every other shape type.
_add_structural_details(m, info) ==
    IF info.shape_type \in {"vehicle", "building", "robot"}
    THEN [m EXCEPT !.panels = @ + 5]
    ELSE m

\* _add_fine_details: 10 small cylinders.
_add_fine_details(m) == [m EXCEPT !.cylinders = @ + 10]

\* Entry of _add_details: the early return, or the copy of the base mesh.
AddDetailsEnter ==
    /\ det_pc = "enter"
    /\ IF keeps_simple(config.complexity)
       THEN /\ det_result' = base_mesh
            /\ det_pc' = "done"
            /\ UNCHANGED detailed_mesh
       ELSE /\ detailed_mesh' = copy(base_mesh)
            /\ det_pc' = "surface"
            /\ UNCHANGED det_result
    /\ UNCHANGED <<base_mesh, shape_info, config, applied>>
    /\ UNCHANGED not_det

AddSurfaceDetails ==
    /\ det_pc = "surface"
    /\ IF wants_surface_details(config.complexity)
       THEN /\ detailed_mesh' = _add_surface_details(detailed_mesh)
            /\ applied' = applied \cup {"surface"}
       ELSE UNCHANGED <<detailed_mesh, applied>>
    /\ det_pc' = "structural"
    /\ UNCHANGED <<base_mesh, shape_info, config, det_result>>
    /\ UNCHANGED not_det

AddStructuralDetails ==
    /\ det_pc = "structural"
    /\ IF wants_structural_details(config.complexity)
       THEN /\ detailed_mesh' = _add_structural_details(detailed_mesh, shape_info)
            /\ applied' = applied \cup {"structural"}
       ELSE UNCHANGED <<detailed_mesh, applied>>
    /\ det_pc' = "fine"
    /\ UNCHANGED <<base_mesh, shape_info, config, det_result>>
    /\ UNCHANGED not_det

\* The fine-detail pass and the return of detailed_mesh.
AddFineDetails ==
    /\ det_pc = "fine"
    /\ LET m == IF wants_fine_details(config.complexity)
                THEN _add_fine_details(detailed_mesh)
                ELSE detailed_mesh
       IN /\ detailed_mesh' = m
          /\ det_result' = m
    /\ applied' = IF wants_fine_details(config.complexity)
                  THEN applied \cup {"fine"} ELSE applied
    /\ det_pc' = "done"
    /\ UNCHANGED <<base_mesh, shape_info, config>>
    /\ UNCHANGED not_det

DetInit ==
    /\ base_mesh = Mesh("base", 0, 0, 0)
    /\ shape_info \in [shape_type : ShapeTypes]
    /\ config \in [complexity : 0..MaxConfigComplexity]
    /\ detailed_mesh = NoMesh
    /\ det_pc = "enter"
    /\ applied = {}
    /\ det_result = NoMesh

\* No call of _add_details is in progress.
DetIdle ==
    /\ base_mesh = NoMesh
    /\ shape_info = [shape_type |-> "furniture"]
    /\ config = [complexity |-> 5]
    /\ detailed_mesh = NoMesh
    /\ det_pc = "idle"
    /\ applied = {}
    /\ det_result = NoMesh

DetNext == AddDetailsEnter \/ AddSurfaceDetails \/ AddStructuralDetails \/ AddFineDetails

-----------------------------------------------------------------------------
\* model_generator.py: generate_3d_model

\* Longest prompt argument.
MaxPromptLen == 2

\* Largest complexity argument, and how far below zero the argument goes.
MaxComplexityArg == 12

MaxBelowZero == 2

\* prompt.strip()[:500]
PromptLimit == 500

\* The characters of a prompt: whitespace and anything else.
Chars == {" ", "c"}

Prompts == UNION {[1..n -> Chars] : n \in 0..MaxPromptLen}

RECURSIVE lstrip(_)
lstrip(p) == IF p # <<>> /\ Head(p) = " " THEN lstrip(Tail(p)) ELSE p

RECURSIVE rstrip(_)
rstrip(p) ==
    IF p # <<>> /\ p[Len(p)] = " " THEN rstrip(SubSeq(p, 1, Len(p) - 1)) ELSE p

\* str.strip
strip(p) == rstrip(lstrip(p))

\* prompt.strip()[:500]
sanitize(p) ==
    LET q == strip(p)
    IN IF Len(q) > PromptLimit THEN SubSeq(q, 1, PromptLimit) ELSE q

\* not prompt or not isinstance(prompt, str) or len(prompt.strip()) == 0
prompt_is_empty(p) == p = <<>> \/ Len(strip(p)) = 0

Min(a, b) == IF a <= b THEN a ELSE b

Max(a, b) == IF a >= b THEN a ELSE b

\* Mutant: only the upper end of the range is enforced.
clamp_complexity_upper_only(c) == Min(10, c)

\* complexity = max(1, min(10, complexity))
clamp_complexity(c) == Max(1, Min(10, c))

valid_engines == {"procedural", "ai_enhanced", "hybrid", "texture_generated"}

\* The engine arguments: two valid engines and one the validation replaces.
Engines == {"ai_enhanced", "hybrid", "voxel"}

validate_engine(e) == IF e \in valid_engines THEN e ELSE "hybrid"

NoConfig == [engine |-> "none", complexity |-> 0]

\* GenerationConfig(engine=GenerationEngine(engine), complexity=complexity, ...)
GenerationConfig(e, c) == [engine |-> e, complexity |-> c]

\* os.path.join("generated", "model_<id>.obj"), or the bare file name
OutputPath(dir, ext) == [dir |-> dir, ext |-> ext]

NoOutputPath == OutputPath("none", "none")

GenPending == [kind |-> "pending", path |-> NoOutputPath, exc |-> "none", error |-> "none"]

\* return output_path
GenReturn(p) == [kind |-> "path", path |-> p, exc |-> "none", error |-> "none"]

\* raise ValueError("Prompt cannot be empty")
ValueError(msg) == [kind |-> "raise", path |-> NoOutputPath, exc |-> "ValueError", error |-> msg]

\* The outer except block: every exception of the body is re-raised as
\* Exception("3D model generation failed: <msg>").
GenerationFailed(msg) ==
    [kind |-> "raise", path |-> NoOutputPath, exc |-> "Exception", error |-> msg]

\* Mutant: a failure of the material generator leaves the function.
on_material_error_propagate == "raise"

\* except Exception: logging.warning("Material generation failed, ...")
on_material_error == "continue"

\* Lines 58-78: the empty-prompt check, then sanitising and clamping.
Validate ==
    /\ gen_pc = "validate"
    /\ IF prompt_is_empty(prompt)
       THEN /\ gen_result' = ValueError("Prompt cannot be empty")
            /\ gen_pc' = "done"
            /\ UNCHANGED <<prompt, complexity, engine>>
       ELSE /\ prompt' = sanitize(prompt)
            /\ complexity' = clamp_complexity(complexity)
            /\ engine' = validate_engine(engine)
            /\ gen_pc' = "multimodal"
            /\ UNCHANGED gen_result
    /\ UNCHANGED <<prompt_arg, complexity_arg, USE_ADVANCED, reference_image, mesh,
                   gen_config, output_path, files, failed>>
    /\ UNCHANGED not_gen

\* Lines 84-100: the multimodal prompt enhancement, failures absorbed.
Multimodal ==
    /\ gen_pc = "multimodal"
    /\ IF USE_ADVANCED /\ reference_image
       THEN \E outcome \in {"success", "no_success", "raise"} :
               failed' = IF outcome = "success" THEN failed
                         ELSE failed \cup {"multimodal"}
       ELSE UNCHANGED failed
    /\ gen_pc' = "ai"
    /\ UNCHANGED <<prompt_arg, complexity_arg, prompt, complexity, engine, USE_ADVANCED,
                   reference_image, mesh, gen_config, output_path, files, gen_result>>
    /\ UNCHANGED not_gen

\* Lines 102-125: generation by an AI service, failures absorbed.
AIGeneration ==
    /\ gen_pc = "ai"
    /\ \E services_available \in BOOLEAN :
          IF USE_ADVANCED /\ engine = "ai_enhanced" /\ services_available
          THEN \E outcome \in {"mesh", "no_mesh", "no_success", "raise"} :
                  /\ mesh' = IF outcome = "mesh" THEN "ai" ELSE "None"
                  /\ failed' = IF outcome = "mesh" THEN failed
                               ELSE failed \cup {"ai_service"}
          ELSE /\ mesh' = "None"
               /\ UNCHANGED failed
    /\ gen_pc' = "fallback"
    /\ UNCHANGED <<prompt_arg, complexity_arg, prompt, complexity, engine, USE_ADVANCED,
                   reference_image, gen_config, output_path, files, gen_result>>
    /\ UNCHANGED not_gen

\* Lines 127-166: the procedural fallback.  With the advanced modules loaded
\* the advanced generator is the only generator tried.  Without them the basic
\* generator is, which falls back to the default mesh itself; when it raises
\* all the same, line 163 builds the default mesh once more, and an exception
\* there leaves through the outer except block.
FallbackGeneration ==
    /\ gen_pc = "fallback"
    /\ IF mesh # "None"
       THEN UNCHANGED <<mesh, gen_config, failed>>
       ELSE IF USE_ADVANCED
       THEN /\ gen_config' = GenerationConfig(engine, complexity)
            /\ \E outcome \in {"mesh", "no_mesh", "raise"} :
                  /\ mesh' = IF outcome = "mesh" THEN "advanced" ELSE "None"
                  /\ failed' = IF outcome = "mesh" THEN failed
                               ELSE failed \cup {"advanced_generator"}
       ELSE /\ UNCHANGED gen_config
            /\ \E outcome \in {"mesh", "default", "raise_then_default", "raise_twice"} :
                  /\ mesh' = CASE outcome = "mesh" -> "basic"
                               [] outcome = "raise_twice" -> "None"
                               [] OTHER -> "default"
                  /\ failed' = IF outcome \in {"raise_then_default", "raise_twice"}
                               THEN failed \cup {"basic_generator"} ELSE failed
    /\ IF mesh' = "None"
       THEN /\ gen_result' = IF USE_ADVANCED
                             THEN GenerationFailed("Failed to generate 3D geometry")
                             ELSE GenerationFailed("create_default_mesh failed")
            /\ gen_pc' = "done"
       ELSE /\ gen_pc' = "material"
            /\ UNCHANGED gen_result
    /\ UNCHANGED <<prompt_arg, complexity_arg, prompt, complexity, engine, USE_ADVANCED,
                   reference_image, output_path, files>>
    /\ UNCHANGED not_gen

\* Lines 168-192: material and texture, failures absorbed.
Material ==
    /\ gen_pc = "material"
    /\ IF USE_ADVANCED
       THEN \E outcome \in {"ok", "texture_raise", "raise"} :
               /\ failed' = CASE outcome = "ok" -> failed
                              [] outcome = "texture_raise" -> failed \cup {"texture"}
                              [] OTHER -> failed \cup {"material"}
               /\ IF outcome = "raise" /\ on_material_error = "raise"
                  THEN /\ gen_result' = GenerationFailed("Material generation failed")
                       /\ gen_pc' = "done"
                  ELSE /\ gen_pc' = "makedirs"
                       /\ UNCHANGED gen_result
       ELSE /\ gen_pc' = "makedirs"
            /\ UNCHANGED <<failed, gen_result>>
    /\ UNCHANGED <<prompt_arg, complexity_arg, prompt, complexity, engine, USE_ADVANCED,
                   reference_image, mesh, gen_config, output_path, files>>
    /\ UNCHANGED not_gen

\* Lines 198-207: the output path; the bare file name when the directory
\* cannot be made.
MakeOutputPath ==
    /\ gen_pc = "makedirs"
    /\ \E made \in BOOLEAN :
          /\ output_path' = IF made THEN OutputPath("generated", "obj")
                            ELSE OutputPath("", "obj")
          /\ failed' = IF made THEN failed ELSE failed \cup {"makedirs"}
    /\ gen_pc' = IF USE_ADVANCED THEN "export_engine" ELSE "direct_export"
    /\ UNCHANGED <<prompt_arg, complexity_arg, prompt, complexity, engine, USE_ADVANCED,
                   reference_image, mesh, gen_config, files, gen_result>>
    /\ UNCHANGED not_gen

\* Lines 212-222: the export engine, failures absorbed.
EngineExport ==
    /\ gen_pc = "export_engine"
    /\ \E outcome \in {"success", "no_success", "raise"} :
          IF outcome = "success"
          THEN /\ files' = files \cup {output_path}
               /\ gen_result' = GenReturn(output_path)
               /\ gen_pc' = "done"
               /\ UNCHANGED failed
          ELSE /\ failed' = failed \cup {"export_engine"}
               /\ gen_pc' = "direct_export"
               /\ UNCHANGED <<files, gen_result>>
    /\ UNCHANGED <<prompt_arg, complexity_arg, prompt, complexity, engine, USE_ADVANCED,
                   reference_image, mesh, gen_config, output_path>>
    /\ UNCHANGED not_gen

\* Lines 225-231: mesh.export(output_path).
DirectExport ==
    /\ gen_pc = "direct_export"
    /\ \E exported \in BOOLEAN :
          IF exported
          THEN /\ files' = files \cup {output_path}
               /\ gen_result' = GenReturn(output_path)
               /\ gen_pc' = "done"
               /\ UNCHANGED failed
          ELSE /\ failed' = failed \cup {"obj_export"}
               /\ gen_pc' = "stl_export"
               /\ UNCHANGED <<files, gen_result>>
    /\ UNCHANGED <<prompt_arg, complexity_arg, prompt, complexity, engine, USE_ADVANCED,
                   reference_image, mesh, gen_config, output_path>>
    /\ UNCHANGED not_gen

\* Lines 232-248: the STL export of last resort.
StlExport ==
    /\ gen_pc = "stl_export"
    /\ \E exported \in BOOLEAN :
          IF exported
          THEN LET stl_path == [output_path EXCEPT !.ext = "stl"]
               IN /\ output_path' = stl_path
                  /\ files' = files \cup {stl_path}
                  /\ gen_result' = GenReturn(stl_path)
                  /\ UNCHANGED failed
          ELSE /\ failed' = failed \cup {"stl_export"}
               /\ gen_result' = GenerationFailed("All export methods failed")
               /\ UNCHANGED <<output_path, files>>
    /\ gen_pc' = "done"
    /\ UNCHANGED <<prompt_arg, complexity_arg, prompt, complexity, engine, USE_ADVANCED,
                   reference_image, mesh, gen_config>>
    /\ UNCHANGED not_gen

GenInit ==
    /\ prompt_arg \in Prompts
    /\ complexity_arg \in (0 - MaxBelowZero)..MaxComplexityArg
    /\ prompt = prompt_arg
    /\ complexity = complexity_arg
    /\ engine \in Engines
    /\ USE_ADVANCED \in BOOLEAN
    /\ reference_image \in BOOLEAN
    /\ mesh = "None"
    /\ gen_config = NoConfig
    /\ output_path = NoOutputPath
    /\ files = {}
    /\ failed = {}
    /\ gen_pc = "validate"
    /\ gen_result = GenPending

\* No call of generate_3d_model is in progress.
GenIdle ==
    /\ prompt_arg = <<>>
    /\ complexity_arg = 7
    /\ prompt = <<>>
    /\ complexity = 7
    /\ engine = "hybrid"
    /\ USE_ADVANCED = TRUE
    /\ reference_image = FALSE
    /\ mesh = "None"
    /\ gen_config = NoConfig
    /\ output_path = NoOutputPath
    /\ files = {}
    /\ failed = {}
    /\ gen_pc = "idle"
    /\ gen_result = GenPending

GenNext ==
    \/ Validate \/ Multimodal \/ AIGeneration \/ FallbackGeneration \/ Material
    \/ MakeOutputPath \/ EngineExport \/ DirectExport \/ StlExport

-----------------------------------------------------------------------------
\* models.py, routes.py, tasks.py: the status of the GenerationJob rows.  A
\* step is the code between two db.session.commit() calls: what a commit
\* writes is what every other request and task reads.

\* Number of GenerationJob rows.
MaxJobs == 2

JobIds == 1..MaxJobs

\* status = db.Column(db.String(50), default='pending'); "absent" is a row not
\* inserted yet.
Statuses == {"absent", "pending", "processing", "completed", "failed"}

\* The code paths that insert a GenerationJob row.
Origins == {"generate", "project", "queue", "pack", "webhook", "map"}

\* The autoincrement primary key: the next row gets the lowest unused id.
HasFreeId == \E j \in JobIds : status[j] = "absent"

NextId == CHOOSE j \in JobIds : status[j] = "absent" /\ \A k \in 1..(j - 1) : status[k] # "absent"

\* db.session.add(job); db.session.commit()
Insert(o, st, pc) ==
    /\ status' = [status EXCEPT ![NextId] = st]
    /\ origin' = [origin EXCEPT ![NextId] = o]
    /\ job_pc' = [job_pc EXCEPT ![NextId] = pc]
    /\ UNCHANGED not_jobs

\* job.status = st; db.session.commit(), and the code path moves on to pc.
Commit(j, st, pc) ==
    /\ status' = [status EXCEPT ![j] = st]
    /\ job_pc' = [job_pc EXCEPT ![j] = pc]
    /\ UNCHANGED origin
    /\ UNCHANGED not_jobs

\* The code path moves on without committing a status.
Goto(j, pc) ==
    /\ job_pc' = [job_pc EXCEPT ![j] = pc]
    /\ UNCHANGED <<status, origin>>
    /\ UNCHANGED not_jobs

\* routes.py /generate, lines 125-132: the row of a submission with a non-empty
\* prompt.
GenerateSubmit ==
    /\ HasFreeId
    /\ Insert("generate", "pending", "submitted")

\* routes.py /generate, lines 134-137.
GenerateStart(j) ==
    /\ origin[j] = "generate" /\ job_pc[j] = "submitted"
    /\ Commit(j, "processing", "generating")

\* routes.py /generate, lines 139-220: generation, conversion and the extras,
\* then the commit of 'completed'; any exception commits 'failed'.
GenerateFinish(j) ==
    /\ origin[j] = "generate" /\ job_pc[j] = "generating"
    /\ \E raised \in BOOLEAN :
          IF raised THEN Commit(j, "failed", "done")
          ELSE Commit(j, "completed", "done")

\* tasks.py generate_game_project_task, lines 155-162: the row of a 'model'
\* task of a project, handed to generate_3d_model_task.
ProjectCreateJob ==
    /\ HasFreeId
    /\ Insert("project", "pending", "created")

\* tasks.py generate_3d_model_task, lines 18-26.
TaskStart(j) ==
    /\ origin[j] = "project" /\ job_pc[j] = "created"
    /\ Commit(j, "processing", "running")

\* tasks.py generate_3d_model_task, lines 28-91 and 105-120: cache lookup,
\* generation and conversion, then the commit of 'completed'.  An exception
\* on the way, the commit's own included, runs the handler, which commits
\* 'failed' unless the session it uses is unusable after a failed flush.
TaskRun(j) ==
    /\ origin[j] = "project" /\ job_pc[j] = "running"
    /\ \E outcome \in {"committed", "raised", "raised_handler_raised"} :
          CASE outcome = "committed" -> Commit(j, "completed", "report")
            [] outcome = "raised" -> Commit(j, "failed", "done")
            [] OTHER -> Goto(j, "done")

\* tasks.py generate_3d_model_task, lines 93-103 and 105-120:
\* current_task.update_state(state='SUCCESS') runs inside the try block, after
\* 'completed' was committed; when the task-state store raises, the handler
\* commits 'failed' on the same row.
TaskReportSuccess(j) ==
    /\ origin[j] = "project" /\ job_pc[j] = "report"
    /\ \E stored \in BOOLEAN :
          IF stored THEN Goto(j, "done")
          ELSE Commit(j, "failed", "done")

\* routes.py /api/queue, lines 289-296: one asset row of a queue.
QueueAddAsset ==
    /\ HasFreeId
    /\ Insert("queue", "pending", "queued")

\* tasks.py process_asset_queue_task, lines 270-294: one asset of the queue.
\* The row is written only at the end: 'completed' when the file exists,
\* 'failed' on an exception, nothing when the returned path does not exist.
QueueProcessAsset(j) ==
    /\ origin[j] = "queue" /\ job_pc[j] = "queued"
    /\ \E outcome \in {"completed", "no_file", "raised"} :
          CASE outcome = "completed" -> Commit(j, "completed", "done")
            [] outcome = "raised" -> Commit(j, "failed", "done")
            [] OTHER -> Goto(j, "done")

\* tasks.py generate_ai_pack_task, lines 334-341: the row of one asset of a
\* themed pack.
PackCreateJob ==
    /\ HasFreeId
    /\ Insert("pack", "pending", "created")

\* tasks.py generate_ai_pack_task, lines 343-363: 'completed' when the file
\* exists; an exception is only logged and the row stays as it is.
PackGenerate(j) ==
    /\ origin[j] = "pack" /\ job_pc[j] = "created"
    /\ \E outcome \in {"completed", "no_file", "raised"} :
          IF outcome = "completed" THEN Commit(j, "completed", "done")
          ELSE Goto(j, "done")

\* routes.py n8n_webhook, lines 1357-1364: the row is inserted and nothing
\* generates it.
WebhookCreateJob ==
    /\ HasFreeId
    /\ Insert("webhook", "pending", "done")

\* routes.py build_nova_map, lines 1566-1572: the row starts as 'processing'.
MapCreateJob ==
    /\ HasFreeId
    /\ Insert("map", "processing", "building")

\* routes.py build_nova_map, lines 1574-1596.
MapFinish(j) ==
    /\ origin[j] = "map" /\ job_pc[j] = "building"
    /\ \E raised \in BOOLEAN :
          IF raised THEN Commit(j, "failed", "done")
          ELSE Commit(j, "completed", "done")

JobsInit ==
    /\ status = [j \in JobIds |-> "absent"]
    /\ origin = [j \in JobIds |-> "none"]
    /\ job_pc = [j \in JobIds |-> "none"]

JobsNext ==
    \/ GenerateSubmit \/ ProjectCreateJob \/ QueueAddAsset \/ PackCreateJob
    \/ WebhookCreateJob \/ MapCreateJob
    \/ \E j \in JobIds :
          \/ GenerateStart(j) \/ GenerateFinish(j)
          \/ TaskStart(j) \/ TaskRun(j) \/ TaskReportSuccess(j)
          \/ QueueProcessAsset(j) \/ PackGenerate(j) \/ MapFinish(j)

-----------------------------------------------------------------------------
\* instance/ai_modules/advanced_generator.py: _analyze_prompt and
\* _estimate_complexity.  A prompt is the sequence of its characters.

\* Largest number of tokens of a prompt.
MaxTokens == 3

\* str.lower() on the letters A-Z.
UpperToLower ==
    ("A" :> "a") @@ ("B" :> "b") @@ ("C" :> "c") @@ ("D" :> "d") @@ ("E" :> "e")
    @@ ("F" :> "f") @@ ("G" :> "g") @@ ("H" :> "h") @@ ("I" :> "i") @@ ("J" :>
    "j") @@ ("K" :> "k") @@ ("L" :> "l") @@ ("M" :> "m") @@ ("N" :> "n") @@ ("O"
    :> "o") @@ ("P" :> "p") @@ ("Q" :> "q") @@ ("R" :> "r") @@ ("S" :> "s") @@
    ("T" :> "t") @@ ("U" :> "u") @@ ("V" :> "v") @@ ("W" :> "w") @@ ("X" :> "x")
    @@ ("Y" :> "y") @@ ("Z" :> "z")

lower_char(c) == IF c \in DOMAIN UpperToLower THEN UpperToLower[c] ELSE c

\* prompt.lower()
lower(p) == [i \in 1..Len(p) |-> lower_char(p[i])]

\* keyword in prompt_lower: the keyword occurs as a substring.
contains(p, k) ==
    \E i \in 1..(Len(p) - Len(k) + 1) :
        p[i] = k[1] /\ SubSeq(p, i, i + Len(k) - 1) = k

\* any(keyword in prompt_lower for keyword in keywords)
any_keyword(p, keywords) == \E n \in 1..Len(keywords) : contains(p, keywords[n])

\* shape_types, in the insertion order of the dict
shape_types ==
    << [key |-> "vehicle", keywords |->
           << <<"c", "a", "r">>, <<"t", "r", "u", "c", "k">>,
              <<"m", "o", "t", "o", "r", "c", "y", "c", "l", "e">>, <<"b", "i", "k", "e">>,
              <<"v", "e", "h", "i", "c", "l", "e">>,
              <<"a", "u", "t", "o", "m", "o", "b", "i", "l", "e">>,
              <<"s", "p", "a", "c", "e", "s", "h", "i", "p">>,
              <<"r", "o", "c", "k", "e", "t">>, <<"s", "h", "i", "p">>,
              <<"b", "o", "a", "t">>, <<"a", "i", "r", "p", "l", "a", "n", "e">>,
              <<"p", "l", "a", "n", "e">>,
              <<"h", "e", "l", "i", "c", "o", "p", "t", "e", "r">> >>],
       [key |-> "building", keywords |->
           << <<"h", "o", "u", "s", "e">>, <<"b", "u", "i", "l", "d", "i", "n", "g">>,
              <<"c", "a", "s", "t", "l", "e">>, <<"t", "o", "w", "e", "r">>,
              <<"s", "k", "y", "s", "c", "r", "a", "p", "e", "r">>,
              <<"c", "o", "t", "t", "a", "g", "e">>, <<"m", "a", "n", "s", "i", "o", "n">>,
              <<"a", "p", "a", "r", "t", "m", "e", "n", "t">>,
              <<"o", "f", "f", "i", "c", "e">> >>],
       [key |-> "furniture", keywords |->
           << <<"c", "h", "a", "i", "r">>, <<"t", "a", "b", "l", "e">>,
              <<"d", "e", "s", "k">>, <<"b", "e", "d">>, <<"s", "o", "f", "a">>,
              <<"c", "o", "u", "c", "h">>, <<"c", "a", "b", "i", "n", "e", "t">>,
              <<"s", "h", "e", "l", "f">>, <<"l", "a", "m", "p">> >>],
       [key |-> "character", keywords |->
           << <<"p", "e", "r", "s", "o", "n">>, <<"h", "u", "m", "a", "n">>,
              <<"r", "o", "b", "o", "t">>, <<"a", "n", "i", "m", "a", "l">>,
              <<"c", "r", "e", "a", "t", "u", "r", "e">>,
              <<"m", "o", "n", "s", "t", "e", "r">>, <<"d", "r", "a", "g", "o", "n">> >>],
       [key |-> "weapon", keywords |->
           << <<"s", "w", "o", "r", "d">>, <<"g", "u", "n">>, <<"r", "i", "f", "l", "e">>,
              <<"p", "i", "s", "t", "o", "l">>, <<"k", "n", "i", "f", "e">>,
              <<"a", "x", "e">>, <<"b", "o", "w">>, <<"a", "r", "r", "o", "w">> >>],
       [key |-> "nature", keywords |->
           << <<"t", "r", "e", "e">>, <<"f", "l", "o", "w", "e", "r">>,
              <<"p", "l", "a", "n", "t">>, <<"r", "o", "c", "k">>,
              <<"m", "o", "u", "n", "t", "a", "i", "n">>,
              <<"c", "r", "y", "s", "t", "a", "l">>, <<"g", "e", "m">> >>],
       [key |-> "abstract", keywords |->
           << <<"a", "b", "s", "t", "r", "a", "c", "t">>,
              <<"g", "e", "o", "m", "e", "t", "r", "i", "c">>,
              <<"s", "c", "u", "l", "p", "t", "u", "r", "e">>, <<"a", "r", "t">>,
              <<"d", "e", "s", "i", "g", "n">> >>] >>

\* styles, in the insertion order of the dict
styles ==
    << [key |-> "realistic", keywords |->
           << <<"r", "e", "a", "l", "i", "s", "t", "i", "c">>,
              <<"p", "h", "o", "t", "o", "r", "e", "a", "l", "i", "s", "t", "i", "c">>,
              <<"d", "e", "t", "a", "i", "l", "e", "d">>,
              <<"a", "c", "c", "u", "r", "a", "t", "e">> >>],
       [key |-> "stylized", keywords |->
           << <<"s", "t", "y", "l", "i", "z", "e", "d">>,
              <<"c", "a", "r", "t", "o", "o", "n">>, <<"a", "n", "i", "m", "e">>,
              <<"c", "o", "m", "i", "c">>, <<"a", "r", "t", "i", "s", "t", "i", "c">> >>],
       [key |-> "low_poly", keywords |->
           << <<"l", "o", "w", " ", "p", "o", "l", "y">>,
              <<"l", "o", "w", "-", "p", "o", "l", "y">>,
              <<"m", "i", "n", "i", "m", "a", "l">>, <<"s", "i", "m", "p", "l", "e">>,
              <<"g", "e", "o", "m", "e", "t", "r", "i", "c">> >>],
       [key |-> "sci_fi", keywords |->
           << <<"s", "c", "i", "-", "f", "i">>,
              <<"f", "u", "t", "u", "r", "i", "s", "t", "i", "c">>,
              <<"c", "y", "b", "e", "r", "p", "u", "n", "k">>, <<"s", "p", "a", "c", "e">>,
              <<"a", "l", "i", "e", "n">> >>],
       [key |-> "fantasy", keywords |->
           << <<"f", "a", "n", "t", "a", "s", "y">>, <<"m", "a", "g", "i", "c", "a", "l">>,
              <<"m", "e", "d", "i", "e", "v", "a", "l">>,
              <<"a", "n", "c", "i", "e", "n", "t">>,
              <<"m", "y", "t", "h", "i", "c", "a", "l">> >>] >>

\* size_keywords, in the insertion order of the dict
size_keywords ==
    << [key |-> "tiny", keywords |->
           << <<"t", "i", "n", "y">>, <<"s", "m", "a", "l", "l">>,
              <<"m", "i", "n", "i", "a", "t", "u", "r", "e">>, <<"m", "i", "n", "i">> >>],
       [key |-> "normal", keywords |->
           << <<"n", "o", "r", "m", "a", "l">>, <<"s", "t", "a", "n", "d", "a", "r", "d">>,
              <<"r", "e", "g", "u", "l", "a", "r">> >>],
       [key |-> "large", keywords |->
           << <<"l", "a", "r", "g", "e">>, <<"b", "i", "g">>, <<"h", "u", "g", "e">>,
              <<"m", "a", "s", "s", "i", "v", "e">>, <<"g", "i", "a", "n", "t">> >>] >>

\* the words that make a shape symmetric
symmetry_words ==
    << <<"s", "y", "m", "m", "e", "t", "r", "i", "c">>,
       <<"b", "a", "l", "a", "n", "c", "e", "d">>, <<"e", "v", "e", "n">> >>

\* the words that make a shape organic
organic_words ==
    << <<"o", "r", "g", "a", "n", "i", "c">>, <<"n", "a", "t", "u", "r", "a", "l">>,
       <<"c", "u", "r", "v", "e", "d">>, <<"f", "l", "o", "w", "i", "n", "g">> >>

\* detail_words of _estimate_complexity
detail_words ==
    << <<"d", "e", "t", "a", "i", "l", "e", "d">>,
       <<"c", "o", "m", "p", "l", "e", "x">>,
       <<"i", "n", "t", "r", "i", "c", "a", "t", "e">>,
       <<"e", "l", "a", "b", "o", "r", "a", "t", "e">>,
       <<"o", "r", "n", "a", "t", "e">>,
       <<"d", "e", "c", "o", "r", "a", "t", "e", "d">>,
       <<"p", "a", "t", "t", "e", "r", "n", "e", "d">> >>

\* simple_words of _estimate_complexity
simple_words ==
    << <<"s", "i", "m", "p", "l", "e">>, <<"b", "a", "s", "i", "c">>,
       <<"m", "i", "n", "i", "m", "a", "l">>, <<"c", "l", "e", "a", "n">>,
       <<"p", "l", "a", "i", "n">> >>

\* Mutant: the loop does not break, so the last matching entry wins.
RECURSIVE last_match(_, _, _, _)
last_match(table, p, i, default) ==
    IF i > Len(table) THEN default
    ELSE LET rest == last_match(table, p, i + 1, default)
         IN IF rest # default \/ ~any_keyword(p, table[i].keywords) THEN rest
            ELSE table[i].key

\* for key, keywords in table.items(): if any(...): detected = key; break
RECURSIVE first_match(_, _, _, _)
first_match(table, p, i, default) ==
    IF i > Len(table) THEN default
    ELSE IF any_keyword(p, table[i].keywords) THEN table[i].key
    ELSE first_match(table, p, i + 1, default)

\* sum(1 for word in words if word in prompt_lower)
RECURSIVE count_present(_, _, _)
count_present(words, p, i) ==
    IF i > Len(words) THEN 0
    ELSE (IF contains(p, words[i]) THEN 1 ELSE 0) + count_present(words, p, i + 1)

\* base_complexity = 5
base_complexity == 5

\* Mutant: the estimate is returned without the clamp.
_estimate_complexity_unclamped(p) ==
    LET prompt_lower == lower(p)
    IN base_complexity + count_present(detail_words, prompt_lower, 1)
                       - count_present(simple_words, prompt_lower, 1)

\* _estimate_complexity
_estimate_complexity(p) ==
    LET prompt_lower == lower(p)
        detail_count == count_present(detail_words, prompt_lower, 1)
        simple_count == count_present(simple_words, prompt_lower, 1)
    IN Max(1, Min(10, base_complexity + detail_count - simple_count))

\* _analyze_prompt: the dict it returns.
_analyze_prompt(p) ==
    LET prompt_lower == lower(p)
    IN [shape_type |-> first_match(shape_types, prompt_lower, 1, "abstract"),
        style      |-> first_match(styles, prompt_lower, 1, "realistic"),
        size       |-> first_match(size_keywords, prompt_lower, 1, "normal"),
        complexity |-> _estimate_complexity(p),
        symmetry   |-> IF any_keyword(prompt_lower, symmetry_words)
                       THEN "symmetric" ELSE "asymmetric",
        organic    |-> IF any_keyword(prompt_lower, organic_words)
                       THEN "organic" ELSE "geometric"]

NoAnalysis ==
    [shape_type |-> "none", style |-> "none", size |-> "none", complexity |-> 0,
     symmetry |-> "none", organic |-> "none"]

\* The pieces prompts are put together from: words of several categories,
\* one with capital letters, a blank, and two complexity words.
Tokens ==
    << <<"c", "a", "r">>, <<"C", "a", "r", "t">>, <<"c", "a", "s", "t", "l", "e">>,
       <<"c", "h", "a", "i", "r">>, <<"b", "e", "d">>, <<"r", "o", "c", "k">>,
       <<"s", "w", "o", "r", "d">>, <<" ">>,
       <<"D", "e", "t", "a", "i", "l", "e", "d">>, <<"s", "i", "m", "p", "l", "e">> >>

RECURSIVE concat(_)
concat(ws) == IF ws = <<>> THEN <<>> ELSE Head(ws) \o concat(Tail(ws))

\* The prompts of up to MaxTokens tokens.
TokenPrompts ==
    UNION {{concat([i \in 1..n |-> Tokens[f[i]]]) : f \in [1..n -> 1..Len(Tokens)]} :
              n \in 0..MaxTokens}

\* words[1..n], separated by blanks.
RECURSIVE join(_, _)
join(words, n) ==
    IF n = 0 THEN <<>>
    ELSE IF n = 1 THEN words[1]
    ELSE join(words, n - 1) \o <<" ">> \o words[n]

\* The prompts with the first d detail words and the first s simplicity words.
ComplexityPrompts ==
    {join(SubSeq(detail_words, 1, d) \o SubSeq(simple_words, 1, s), d + s) :
        d \in 0..Len(detail_words), s \in 0..Len(simple_words)}

\* One call of _analyze_prompt.
AnalyzePrompt ==
    /\ an_pc = "call"
    /\ analysis' = _analyze_prompt(an_prompt)
    /\ an_pc' = "done"
    /\ UNCHANGED an_prompt
    /\ UNCHANGED not_an

AnInit ==
    /\ an_prompt \in TokenPrompts \cup ComplexityPrompts
    /\ analysis = NoAnalysis
    /\ an_pc = "call"

\* No call of _analyze_prompt is in progress.
AnIdle ==
    /\ an_prompt = <<>>
    /\ analysis = NoAnalysis
    /\ an_pc = "idle"

AnNext ==
    \/ AnalyzePrompt

-----------------------------------------------------------------------------
\* tasks.py: runs of generate_3d_model_task, one after the other, for the same
\* prompt and so for the same AssetCache key.  The database holds what was
\* committed; the session holds what the run changed and has not committed.

\* Largest number of runs.
MaxRuns == 3

\* project_id: 0 stands for None.
ProjectIds == {0, 1}

\* The values of meta['current'] that are passed to update_state.
progress_initializing == 10
progress_cached == 50
progress_generating == 20
progress_fbx == 60
progress_blend == 80
progress_success == 100
\* Mutant: the failure report repeats the last milestone.
progress_failure_as_success == progress_success
progress_failure == 0

\* str(e) of the exceptions a run can meet.
GenerationError == "3D model generation failed"
StoreError == "task-state store unreachable"
IntegrityError == "UNIQUE constraint failed: asset_cache.cache_key"

\* current_task.update_state inside the try block: the value is stored, or the
\* task-state store raises and the except block takes over.
update_state(value, next) ==
    \E stored \in BOOLEAN :
        IF stored
        THEN /\ reports' = Append(reports, value)
             /\ task_pc' = next
             /\ UNCHANGED exc
        ELSE /\ exc' = StoreError
             /\ task_pc' = "except"
             /\ UNCHANGED reports

\* Lines 20-26: the row is loaded, set to 'processing' and committed.
TaskBegin ==
    /\ task_pc = "begin"
    /\ row_status # "absent"
    /\ job_status' = "processing"
    /\ row_status' = "processing"
    /\ task_pc' = "report10"
    /\ UNCHANGED <<row_error, session, cache_entry, cache_row, cache_file,
                   access_count, cache_hits, reports, exc, task_project, runs>>
    /\ UNCHANGED not_task

\* Lines 29-32.
ReportInitializing ==
    /\ task_pc = "report10"
    /\ update_state(progress_initializing, "lookup")
    /\ UNCHANGED <<row_status, row_error, job_status, session, cache_entry, cache_row,
                   cache_file, access_count, cache_hits, task_project, runs>>
    /\ UNCHANGED not_task

\* Lines 35-40 and 45: the cache is hit when the row exists and its file does.
\* A hit sets job.obj_path and writes nothing to the AssetCache row.
CacheLookup ==
    /\ task_pc = "lookup"
    /\ IF cache_row /\ cache_file
       THEN /\ cache_hits' = cache_hits + 1
            /\ task_pc' = "report50"
       ELSE /\ task_pc' = "report20"
            /\ UNCHANGED cache_hits
    /\ UNCHANGED <<row_status, row_error, job_status, session, cache_entry, cache_row,
                   cache_file, access_count, reports, exc, task_project, runs>>
    /\ UNCHANGED not_task

\* Mutant: a cache hit goes on to convert_to_blend without convert_to_fbx.
ReportCachedThenBlend ==
    /\ task_pc = "report50"
    /\ update_state(progress_cached, "blend")
    /\ UNCHANGED <<row_status, row_error, job_status, session, cache_entry, cache_row,
                   cache_file, access_count, cache_hits, task_project, runs>>
    /\ UNCHANGED not_task

\* Lines 41-44.
ReportCached ==
    /\ task_pc = "report50"
    /\ update_state(progress_cached, "report60")
    /\ UNCHANGED <<row_status, row_error, job_status, session, cache_entry, cache_row,
                   cache_file, access_count, cache_hits, task_project, runs>>
    /\ UNCHANGED not_task

\* Lines 47-50.
ReportGenerating ==
    /\ task_pc = "report20"
    /\ update_state(progress_generating, "generate")
    /\ UNCHANGED <<row_status, row_error, job_status, session, cache_entry, cache_row,
                   cache_file, access_count, cache_hits, task_project, runs>>
    /\ UNCHANGED not_task

\* Lines 52-62: generate_3d_model returns a path or raises; with a path a new
\* AssetCache object with this cache key is added to the session.
Generate ==
    /\ task_pc = "generate"
    /\ \E generated \in BOOLEAN :
          IF generated
          THEN /\ cache_entry' = TRUE
               /\ task_pc' = "report60"
               /\ UNCHANGED exc
          ELSE /\ exc' = GenerationError
               /\ task_pc' = "except"
               /\ UNCHANGED cache_entry
    /\ UNCHANGED <<row_status, row_error, job_status, session, cache_row, cache_file,
                   access_count, cache_hits, reports, task_project, runs>>
    /\ UNCHANGED not_task

\* Lines 65-68.
ReportFbx ==
    /\ task_pc = "report60"
    /\ update_state(progress_fbx, "fbx")
    /\ UNCHANGED <<row_status, row_error, job_status, session, cache_entry, cache_row,
                   cache_file, access_count, cache_hits, task_project, runs>>
    /\ UNCHANGED not_task

\* Lines 70-71: convert_to_fbx does not raise.
ConvertFbx ==
    /\ task_pc = "fbx"
    /\ task_pc' = "report80"
    /\ UNCHANGED <<row_status, row_error, job_status, session, cache_entry, cache_row,
                   cache_file, access_count, cache_hits, reports, exc, task_project, runs>>
    /\ UNCHANGED not_task

\* Lines 73-76.
ReportBlend ==
    /\ task_pc = "report80"
    /\ update_state(progress_blend, "blend")
    /\ UNCHANGED <<row_status, row_error, job_status, session, cache_entry, cache_row,
                   cache_file, access_count, cache_hits, task_project, runs>>
    /\ UNCHANGED not_task

\* Lines 78-83: convert_to_blend does not raise; job.status = 'completed' is
\* set on the session's object.
ConvertBlend ==
    /\ task_pc = "blend"
    /\ job_status' = "completed"
    /\ task_pc' = "project"
    /\ UNCHANGED <<row_status, row_error, session, cache_entry, cache_row, cache_file,
                   access_count, cache_hits, reports, exc, task_project, runs>>
    /\ UNCHANGED not_task

\* The flush of the session inserts the new AssetCache object; cache_key is
\* unique, so the insert fails when a row with the key is there.
flush_fails == cache_entry /\ cache_row

\* Lines 86-89: with a project_id the project and its assets are loaded, and a
\* load flushes the session first.  A flush that fails outside commit() rolls
\* the transaction back and leaves the session unusable until rollback().
AddToProject ==
    /\ task_pc = "project"
    /\ IF task_project # 0 /\ flush_fails
       THEN /\ session' = "inactive"
            /\ job_status' = row_status
            /\ cache_entry' = FALSE
            /\ exc' = IntegrityError
            /\ task_pc' = "except"
       ELSE /\ task_pc' = "commit"
            /\ UNCHANGED <<session, job_status, cache_entry, exc>>
    /\ UNCHANGED <<row_status, row_error, cache_row, cache_file, access_count,
                   cache_hits, reports, task_project, runs>>
    /\ UNCHANGED not_task

\* Line 91: db.session.commit().  A commit whose flush fails rolls back and
\* leaves a usable session; a commit that succeeds stores 'completed' and the
\* new AssetCache row, whose file generate_3d_model wrote.
TaskCommit ==
    /\ task_pc = "commit"
    /\ IF flush_fails
       THEN /\ job_status' = row_status
            /\ cache_entry' = FALSE
            /\ exc' = IntegrityError
            /\ task_pc' = "except"
            /\ UNCHANGED <<row_status, cache_row, cache_file>>
       ELSE /\ row_status' = job_status
            /\ cache_row' = (cache_row \/ cache_entry)
            /\ cache_file' = (cache_file \/ cache_entry)
            /\ cache_entry' = FALSE
            /\ task_pc' = "report100"
            /\ UNCHANGED <<job_status, exc>>
    /\ UNCHANGED <<row_error, session, access_count, cache_hits, reports,
                   task_project, runs>>
    /\ UNCHANGED not_task

\* Lines 93-103: the SUCCESS report, inside the try block, then the return.
ReportSuccess ==
    /\ task_pc = "report100"
    /\ update_state(progress_success, "returned")
    /\ UNCHANGED <<row_status, row_error, job_status, session, cache_entry, cache_row,
                   cache_file, access_count, cache_hits, task_project, runs>>
    /\ UNCHANGED not_task

\* Lines 105-113: the except block loads the row, sets 'failed' and the error
\* text and commits.  On an unusable session the load raises and the block is
\* left without a write.  What the try block had not committed is not
\* committed here either when it was rolled back before.
ExceptHandler ==
    /\ task_pc = "except"
    /\ IF session = "inactive"
       THEN /\ task_pc' = "raised"
            /\ UNCHANGED <<row_status, row_error, job_status, cache_row, cache_file,
                           cache_entry>>
       ELSE /\ ~flush_fails
            /\ job_status' = "failed"
            /\ row_status' = "failed"
            /\ row_error' = exc
            /\ cache_row' = (cache_row \/ cache_entry)
            /\ cache_file' = (cache_file \/ cache_entry)
            /\ cache_entry' = FALSE
            /\ task_pc' = "report0"
    /\ UNCHANGED <<session, access_count, cache_hits, reports, exc, task_project, runs>>
    /\ UNCHANGED not_task

\* Lines 105-113 when the except block's own commit has to flush an AssetCache
\* object whose key is taken: the commit fails and the block is left.
ExceptHandlerCommitFails ==
    /\ task_pc = "except"
    /\ session = "active"
    /\ flush_fails
    /\ job_status' = row_status
    /\ cache_entry' = FALSE
    /\ task_pc' = "raised"
    /\ UNCHANGED <<row_status, row_error, session, cache_row, cache_file, access_count,
                   cache_hits, reports, exc, task_project, runs>>
    /\ UNCHANGED not_task

\* Lines 115-120: the FAILURE report with current 0, then the exception is
\* raised again; when the report itself raises, that exception leaves the task.
ReportFailure ==
    /\ task_pc = "report0"
    /\ \E stored \in BOOLEAN :
          reports' = IF stored THEN Append(reports, progress_failure) ELSE reports
    /\ task_pc' = "raised"
    /\ UNCHANGED <<row_status, row_error, job_status, session, cache_entry, cache_row,
                   cache_file, access_count, cache_hits, exc, task_project, runs>>
    /\ UNCHANGED not_task

\* Lines 156-164 (generate_game_project_task): a new pending row is committed
\* and the next run starts for it, on a usable session.
NextRun ==
    /\ task_pc \in {"returned", "raised"}
    /\ runs < MaxRuns
    /\ runs' = runs + 1
    /\ row_status' = "pending"
    /\ row_error' = ""
    /\ job_status' = "pending"
    /\ session' = "active"
    /\ cache_entry' = FALSE
    /\ reports' = <<>>
    /\ exc' = ""
    /\ task_project' \in ProjectIds
    /\ task_pc' = "begin"
    /\ UNCHANGED <<cache_row, cache_file, access_count, cache_hits>>
    /\ UNCHANGED not_task

\* The file of the cache entry is removed from the disk; line 38 tests for it.
CachedFileLost ==
    /\ task_pc \in {"returned", "raised"}
    /\ cache_row /\ cache_file
    /\ cache_file' = FALSE
    /\ UNCHANGED <<row_status, row_error, job_status, session, cache_entry, cache_row,
                   access_count, cache_hits, reports, exc, task_pc, task_project, runs>>
    /\ UNCHANGED not_task

\* routes.py DELETE /api/cache: every entry and its file are deleted.
ClearCache ==
    /\ task_pc \in {"returned", "raised"}
    /\ cache_row
    /\ cache_row' = FALSE
    /\ cache_file' = FALSE
    /\ access_count' = 0
    /\ cache_hits' = 0
    /\ UNCHANGED <<row_status, row_error, job_status, session, cache_entry, reports,
                   exc, task_pc, task_project, runs>>
    /\ UNCHANGED not_task

TaskInit ==
    /\ row_status = "pending"
    /\ row_error = ""
    /\ job_status = "pending"
    /\ session = "active"
    /\ cache_entry = FALSE
    /\ cache_row = FALSE
    /\ cache_file = FALSE
    /\ access_count = 0
    /\ cache_hits = 0
    /\ reports = <<>>
    /\ exc = ""
    /\ task_pc = "begin"
    /\ task_project \in ProjectIds
    /\ runs = 1

\* No run of generate_3d_model_task is modelled.
TaskIdle ==
    /\ row_status = "absent"
    /\ row_error = ""
    /\ job_status = "absent"
    /\ session = "active"
    /\ cache_entry = FALSE
    /\ cache_row = FALSE
    /\ cache_file = FALSE
    /\ access_count = 0
    /\ cache_hits = 0
    /\ reports = <<>>
    /\ exc = ""
    /\ task_pc = "idle"
    /\ task_project = 0
    /\ runs = 0

TaskNext ==
    \/ TaskBegin
    \/ ReportInitializing
    \/ CacheLookup
    \/ ReportCached
    \/ ReportGenerating
    \/ Generate
    \/ ReportFbx
    \/ ConvertFbx
    \/ ReportBlend
    \/ ConvertBlend
    \/ AddToProject
    \/ TaskCommit
    \/ ReportSuccess
    \/ ExceptHandler
    \/ ExceptHandlerCommitFails
    \/ ReportFailure
    \/ NextRun
    \/ CachedFileLost
    \/ ClearCache

-----------------------------------------------------------------------------
\* tasks.py: process_asset_queue_task and generate_ai_pack_task, one batch of
\* member GenerationJob rows with its zip file.

\* Largest number of members of a batch.
MaxMembers == 3

BatchKinds == {"queue", "pack"}

\* What generate_3d_model does for one member: it returns the path of a file
\* that exists, returns a path that does not exist, or raises.
MemberOutcomes == {"file", "no_file", "raised"}

\* Lines 262-267 and 322-327: the batch row is loaded and marked.
BatchBegin ==
    /\ batch_pc = "begin"
    /\ batch_status' = IF batch_kind = "queue" THEN "processing" ELSE "generating"
    /\ batch_pc' = "loop"
    /\ UNCHANGED <<batch_kind, batch_size, member_status, zip_path, completed_items,
                   batch_i>>
    /\ UNCHANGED not_batch

\* Lines 270-294, one pass of the loop over queue.assets.  The member row
\* exists and is pending; it becomes completed with a file, failed on an
\* exception, and is left alone when the path does not exist.
ProcessQueueAsset ==
    /\ batch_pc = "loop" /\ batch_kind = "queue"
    /\ batch_i <= batch_size
    /\ \E outcome \in MemberOutcomes :
          /\ member_status' =
                [member_status EXCEPT ![batch_i] =
                    CASE outcome = "file" -> "completed"
                      [] outcome = "raised" -> "failed"
                      [] OTHER -> @]
          /\ completed_items' = IF outcome = "file" THEN completed_items + 1
                                ELSE completed_items
    /\ batch_i' = batch_i + 1
    /\ UNCHANGED <<batch_kind, batch_size, batch_status, zip_path, batch_pc>>
    /\ UNCHANGED not_batch

\* Lines 333-364, one pass of the loop over theme_assets.  The member row is
\* inserted as pending; it becomes completed with a file and otherwise stays
\* pending: the except block only logs.
GeneratePackAsset ==
    /\ batch_pc = "loop" /\ batch_kind = "pack"
    /\ batch_i <= batch_size
    /\ \E outcome \in MemberOutcomes :
          /\ member_status' =
                [member_status EXCEPT ![batch_i] =
                    IF outcome = "file" THEN "completed" ELSE "pending"]
          /\ completed_items' = IF outcome = "file" THEN completed_items + 1
                                ELSE completed_items
    /\ batch_i' = batch_i + 1
    /\ UNCHANGED <<batch_kind, batch_size, batch_status, zip_path, batch_pc>>
    /\ UNCHANGED not_batch

\* Lines 296-315 and 366-385: the zip is made when at least one member was
\* completed (create_bulk_zip and create_themed_pack_zip return None on an
\* error), then the batch is committed as completed; when the commit raises,
\* the except block commits failed.
BatchFinish ==
    /\ batch_pc = "loop"
    /\ batch_i > batch_size
    /\ \E zipped \in BOOLEAN, committed \in BOOLEAN :
          IF committed
          THEN /\ zip_path' = IF completed_items > 0 /\ zipped THEN "zip" ELSE zip_path
               /\ batch_status' = "completed"
          ELSE /\ batch_status' = "failed"
               /\ UNCHANGED zip_path
    /\ batch_pc' = "done"
    /\ UNCHANGED <<batch_kind, batch_size, member_status, completed_items, batch_i>>
    /\ UNCHANGED not_batch

\* routes.py api_queue POST and api_packs POST: the batch row as the route
\* commits it, with the member rows of a queue.
BatchInit ==
    /\ batch_kind \in BatchKinds
    /\ batch_size \in 0..MaxMembers
    /\ member_status =
          [m \in 1..batch_size |-> IF batch_kind = "queue" THEN "pending" ELSE "absent"]
    /\ batch_status = IF batch_kind = "queue" THEN "pending" ELSE "generating"
    /\ zip_path = ""
    /\ completed_items = 0
    /\ batch_i = 1
    /\ batch_pc = "begin"

\* No batch is modelled.
BatchIdle ==
    /\ batch_kind = "none"
    /\ batch_size = 0
    /\ member_status = <<>>
    /\ batch_status = "none"
    /\ zip_path = ""
    /\ completed_items = 0
    /\ batch_i = 0
    /\ batch_pc = "idle"

BatchNext ==
    \/ BatchBegin
    \/ ProcessQueueAsset
    \/ GeneratePackAsset
    \/ BatchFinish

-----------------------------------------------------------------------------
\* routes.py: the public receiver /webhook/n8n/<webhook_name> and the routes
\* that create and update the WebhookEndpoint row it looks up.

\* Largest number of requests that are handled.
MaxRequests == 3

\* Secrets; "" stands for None and for the empty string, which are both falsy.
Secrets == {"", "s1", "s2"}

WebhookActions ==
    {"generate_model", "generate_script", "create_project", "get_status", "unknown"}

\* The actions that add a row (a GenerationJob, GeneratedScript or Project).
creating_actions == {"generate_model", "generate_script", "create_project"}

NoRequest == [header |-> "", body |-> "", action |-> "none"]

\* request.headers.get('X-Webhook-Secret') or data.get('secret')
provided_secret(req) == IF req.header # "" THEN req.header ELSE req.body

\* if webhook.secret_key: ... if provided_secret != webhook.secret_key: 401
secret_accepted(key, req) == key = "" \/ provided_secret(req) = key

\* routes.py api_webhooks POST: secret_key=data.get('secret_key', '').
CreateWebhook ==
    /\ ~wh_exists
    /\ wh_exists' = TRUE
    /\ \E key \in Secrets : secret_key' = key
    /\ is_active' = TRUE
    /\ trigger_count' = 0
    /\ UNCHANGED <<rows_created, wh_request, wh_code, wh_requests>>
    /\ UNCHANGED not_wh

\* routes.py api_webhook PUT: secret_key and is_active are replaced.
UpdateWebhook ==
    /\ wh_exists
    /\ \E key \in Secrets, active \in BOOLEAN :
          /\ secret_key' = key
          /\ is_active' = active
    /\ UNCHANGED <<wh_exists, trigger_count, rows_created, wh_request, wh_code,
                   wh_requests>>
    /\ UNCHANGED not_wh

\* routes.py n8n_webhook, the whole handler for one request: 404 without an
\* active webhook of the name, 401 on a secret that is not accepted, 500 when
\* the action raises before its commit; otherwise the action runs and the
\* trigger statistics are committed.
N8nWebhook ==
    /\ wh_requests < MaxRequests
    /\ wh_requests' = wh_requests + 1
    /\ \E req \in [header : Secrets, body : Secrets, action : WebhookActions],
          action_raises \in BOOLEAN :
          /\ wh_request' = req
          /\ IF ~(wh_exists /\ is_active)
             THEN /\ wh_code' = 404
                  /\ UNCHANGED <<rows_created, trigger_count>>
             ELSE IF ~secret_accepted(secret_key, req)
             THEN /\ wh_code' = 401
                  /\ UNCHANGED <<rows_created, trigger_count>>
             ELSE IF req.action = "generate_script" /\ action_raises
             THEN /\ wh_code' = 500
                  /\ UNCHANGED <<rows_created, trigger_count>>
             ELSE /\ wh_code' = 200
                  /\ rows_created' = IF req.action \in creating_actions
                                     THEN rows_created + 1 ELSE rows_created
                  /\ trigger_count' = trigger_count + 1
    /\ UNCHANGED <<wh_exists, secret_key, is_active>>
    /\ UNCHANGED not_wh

WebhookInit ==
    /\ wh_exists = FALSE
    /\ secret_key = ""
    /\ is_active = FALSE
    /\ trigger_count = 0
    /\ rows_created = 0
    /\ wh_request = NoRequest
    /\ wh_code = 0
    /\ wh_requests = 0

\* No webhook is modelled.
WebhookIdle ==
    /\ wh_exists = FALSE
    /\ secret_key = ""
    /\ is_active = FALSE
    /\ trigger_count = 0
    /\ rows_created = 0
    /\ wh_request = NoRequest
    /\ wh_code = -1
    /\ wh_requests = 0

WebhookNext ==
    \/ CreateWebhook
    \/ UpdateWebhook
    \/ N8nWebhook

-----------------------------------------------------------------------------
\* bridge_service.py upload_to_open_cloud, lines 348-391: the polling of the
\* long-running operation.  Time is counted in ticks of a tenth of a second,
\* from the moment the deadline is computed.

\* Largest poll_timeout (seconds), poll_interval and duration of one poll
\* request (ticks).
MaxPollTimeout == 2
MaxPollInterval == 3
MaxRequestTicks == 2

TicksPerSecond == 10

\* What one poll request gives: a 2xx response with done true, a 2xx response
\* that is not done, another status code, or an exception.
PollOutcomes == {"done", "not_done", "status", "exception"}

\* max(1, int(poll_timeout)), in ticks
timeout_ticks(timeout) == TicksPerSecond * Max(1, timeout)

\* Mutant: the sleep has no minimum.
sleep_ticks_no_minimum(interval) == interval

\* max(0.1, float(poll_interval)), in ticks
sleep_ticks(interval) == Max(1, interval)

\* Line 356: the deadline.
PollStart ==
    /\ poll_pc = "start"
    /\ deadline' = now + timeout_ticks(poll_timeout)
    /\ poll_pc' = "while"
    /\ UNCHANGED <<now, poll_timeout, poll_interval, last_status, poll_done, poll_code>>
    /\ UNCHANGED not_poll

\* Line 358 and lines 381-391: the loop goes on while the deadline is ahead,
\* and otherwise the handler returns 202 with the note 'Polling timed out'.
PollWhile ==
    /\ poll_pc = "while"
    /\ IF now < deadline
       THEN /\ poll_pc' = "request"
            /\ UNCHANGED poll_code
       ELSE /\ poll_pc' = "returned"
            /\ poll_code' = 202
    /\ UNCHANGED <<now, deadline, poll_timeout, poll_interval, last_status, poll_done>>
    /\ UNCHANGED not_poll

\* Lines 359-379: one poll request, which takes some time.  A response with
\* done true makes the handler return the final result; another status code
\* is kept in last_status; an exception is swallowed.
PollRequest ==
    /\ poll_pc = "request"
    /\ \E d \in 0..MaxRequestTicks, outcome \in PollOutcomes :
          /\ now' = now + d
          /\ poll_done' = (outcome = "done")
          /\ last_status' = IF outcome = "status" THEN "status" ELSE last_status
          /\ IF outcome = "done"
             THEN /\ poll_pc' = "returned"
                  /\ poll_code' = 200
             ELSE /\ poll_pc' = "sleep"
                  /\ UNCHANGED poll_code
    /\ UNCHANGED <<deadline, poll_timeout, poll_interval>>
    /\ UNCHANGED not_poll

\* Line 380: time.sleep(max(0.1, float(poll_interval))).
PollSleep ==
    /\ poll_pc = "sleep"
    /\ now' = now + sleep_ticks(poll_interval)
    /\ poll_pc' = "while"
    /\ UNCHANGED <<deadline, poll_timeout, poll_interval, last_status, poll_done, poll_code>>
    /\ UNCHANGED not_poll

\* The query parameters: poll_timeout is an int, negative values included, and
\* poll_interval a float, here a number of ticks.
PollInit ==
    /\ now = 0
    /\ deadline = 0
    /\ poll_timeout \in -1..MaxPollTimeout
    /\ poll_interval \in 0..MaxPollInterval
    /\ last_status = "none"
    /\ poll_done = FALSE
    /\ poll_code = 0
    /\ poll_pc = "start"

\* No upload is polling.
PollIdle ==
    /\ now = 0
    /\ deadline = 0
    /\ poll_timeout = 0
    /\ poll_interval = 0
    /\ last_status = "none"
    /\ poll_done = FALSE
    /\ poll_code = 0
    /\ poll_pc = "idle"

PollNext ==
    \/ PollStart
    \/ PollWhile
    \/ PollRequest
    \/ PollSleep

-----------------------------------------------------------------------------
\* enhanced_bridge.py: the in-memory jobs of the v2 API.  process_generation
\* is a coroutine without an await, so it runs from 'processing' to its end
\* before another handler runs.

\* Largest number of jobs, and of requests and background runs together.
MaxBridgeJobs == 2
MaxBridgeSteps == 5

BridgeJobIds == 1..MaxBridgeJobs

\* jobs.get(job_id) is None
NoBridgeJob == [status |-> "absent", completed_at |-> 0, messages |-> <<>>, processed |-> FALSE]

\* GenerationJob.__init__; completed_at 0 stands for None.
NewBridgeJob == [status |-> "pending", completed_at |-> 0, messages |-> <<>>, processed |-> FALSE]

\* Every handler and background run takes the next clock value (datetime.now()).
BridgeStep(request, code) ==
    /\ bridge_clock < MaxBridgeSteps
    /\ bridge_clock' = bridge_clock + 1
    /\ bridge_request' = request
    /\ bridge_code' = code

\* POST /api/v2/generate, lines 141-154.
BridgeSubmit ==
    /\ \E j \in BridgeJobIds :
          /\ bridge_jobs[j].status = "absent"
          /\ \A k \in BridgeJobIds : k < j => bridge_jobs[k].status # "absent"
          /\ bridge_jobs' = [bridge_jobs EXCEPT ![j] = NewBridgeJob]
          /\ BridgeStep([op |-> "generate", job |-> j], 200)
    /\ UNCHANGED not_bridge

\* process_generation, lines 83-135, the background task of a submitted job:
\* whatever the status is, the job is processed and ends completed or failed.
ProcessGeneration ==
    /\ \E j \in BridgeJobIds, generated \in BOOLEAN :
          /\ bridge_jobs[j].status # "absent"
          /\ ~bridge_jobs[j].processed
          /\ bridge_jobs' =
                [bridge_jobs EXCEPT ![j] =
                    [status |-> IF generated THEN "completed" ELSE "failed",
                     completed_at |-> bridge_clock + 1,
                     messages |-> @.messages \o
                         (IF generated
                          THEN <<"Starting generation...", "Configuration prepared",
                                 "Generation complete", "Job completed successfully">>
                          ELSE <<"Starting generation...", "Error">>),
                     processed |-> TRUE]]
          /\ BridgeStep([op |-> "process", job |-> j], 0)
    /\ UNCHANGED not_bridge

\* DELETE /api/v2/job/{job_id}, lines 188-201.
CancelJob ==
    /\ \E j \in BridgeJobIds :
          IF bridge_jobs[j].status = "absent"
          THEN /\ BridgeStep([op |-> "cancel", job |-> j], 404)
               /\ UNCHANGED bridge_jobs
          ELSE IF bridge_jobs[j].status \in {"completed", "failed"}
          THEN /\ BridgeStep([op |-> "cancel", job |-> j], 400)
               /\ UNCHANGED bridge_jobs
          ELSE /\ bridge_jobs' =
                     [bridge_jobs EXCEPT ![j] =
                         [@ EXCEPT !.status = "cancelled",
                                   !.completed_at = bridge_clock + 1,
                                   !.messages = Append(@, "Job cancelled by user")]]
               /\ BridgeStep([op |-> "cancel", job |-> j], 200)
    /\ UNCHANGED not_bridge

BridgeInit ==
    /\ bridge_jobs = [j \in BridgeJobIds |-> NoBridgeJob]
    /\ bridge_request = [op |-> "none", job |-> 0]
    /\ bridge_code = 0
    /\ bridge_clock = 0

\* The v2 API is not modelled.
BridgeIdle ==
    /\ bridge_jobs = <<>>
    /\ bridge_request = [op |-> "none", job |-> 0]
    /\ bridge_code = 0
    /\ bridge_clock = 0

BridgeNext ==
    \/ BridgeSubmit
    \/ ProcessGeneration
    \/ CancelJob

-----------------------------------------------------------------------------
\* scripts/video_processor.py: one call of an entry point of VideoProcessor.

VideoEntryPoints == {"get_video_info", "extract_frames", "process_video_for_3d"}

\* The methods the class VideoProcessor defines (lines 231-670).
VideoProcessorMethods ==
    {"__init__", "get_video_info", "initialize_processing", "process_frame",
     "extract_audio", "process_video_for_3d"}

\* VideoInfo.from_video, lines 73-80: the exception it raises, "none" when it
\* returns.
from_video(exists, opens) ==
    IF ~exists THEN "FileNotFoundError"
    ELSE IF ~opens THEN "IOError"
    ELSE "none"

\* self.<name>: a name the class does not define raises AttributeError.
attribute_lookup(name) ==
    IF name \in VideoProcessorMethods THEN "none" ELSE "AttributeError"

\* initialize_processing, lines 264-292: the modules that are set up.
initialize_processing(remove, detect) ==
    [initialized |-> TRUE, background_remover |-> remove, object_detector |-> detect]

\* __init__, lines 248-251.
NotInitialized ==
    [initialized |-> FALSE, background_remover |-> FALSE, object_detector |-> FALSE]

\* get_video_info, lines 253-262.
GetVideoInfo ==
    /\ video_pc = "call" /\ video_entry = "get_video_info"
    /\ video_raised' = from_video(video_exists, video_opens)
    /\ video_pc' = "done"
    /\ UNCHANGED <<video_entry, video_exists, video_opens, video_callback,
                   remove_background, detect_objects, video_initialized, callback_calls>>
    /\ UNCHANGED not_video

\* processor.extract_frames(...): the attribute is looked up on the object.
ExtractFrames ==
    /\ video_pc = "call" /\ video_entry = "extract_frames"
    /\ video_raised' = attribute_lookup("extract_frames")
    /\ video_pc' = "done"
    /\ UNCHANGED <<video_entry, video_exists, video_opens, video_callback,
                   remove_background, detect_objects, video_initialized, callback_calls>>
    /\ UNCHANGED not_video

\* process_video_for_3d, lines 543-613.  Everything runs inside the try
\* block: the FileNotFoundError of line 545, an exception of get_video_info
\* and the one of self.extract_frames at line 573 are caught at line 609 and
\* a RuntimeError is raised from them, after the progress callback was called.
ProcessVideoFor3d ==
    /\ video_pc = "call" /\ video_entry = "process_video_for_3d"
    /\ LET caught == IF ~video_exists THEN "FileNotFoundError"
                     ELSE IF from_video(video_exists, video_opens) # "none"
                          THEN from_video(video_exists, video_opens)
                     ELSE attribute_lookup("extract_frames")
       IN /\ video_initialized' =
                IF video_exists /\ video_opens
                THEN initialize_processing(remove_background, detect_objects)
                ELSE video_initialized
          /\ video_raised' = IF caught = "none" THEN "none" ELSE "RuntimeError"
          /\ callback_calls' = IF caught # "none" /\ video_callback
                               THEN callback_calls + 1 ELSE callback_calls
    /\ video_pc' = "done"
    /\ UNCHANGED <<video_entry, video_exists, video_opens, video_callback,
                   remove_background, detect_objects>>
    /\ UNCHANGED not_video

\* The arguments of the call and the state of the file.
VideoInit ==
    /\ video_entry \in VideoEntryPoints
    /\ video_exists \in BOOLEAN
    /\ video_opens \in BOOLEAN
    /\ video_callback \in BOOLEAN
    /\ remove_background \in BOOLEAN
    /\ detect_objects \in BOOLEAN
    /\ video_initialized = NotInitialized
    /\ callback_calls = 0
    /\ video_raised = "none"
    /\ video_pc = "call"

\* No call of VideoProcessor is modelled.
VideoIdle ==
    /\ video_entry = "none"
    /\ video_exists = FALSE
    /\ video_opens = FALSE
    /\ video_callback = FALSE
    /\ remove_background = FALSE
    /\ detect_objects = FALSE
    /\ video_initialized = NotInitialized
    /\ callback_calls = 0
    /\ video_raised = "none"
    /\ video_pc = "idle"

VideoNext ==
    \/ GetVideoInfo
    \/ ExtractFrames
    \/ ProcessVideoFor3d

-----------------------------------------------------------------------------
\* tasks.py process_asset_queue_task: executions for the same AssetQueue, each
\* with a session of its own.  A session keeps the completed_items it loaded
\* until its next commit expires it; a commit writes the value the session
\* computed, not an increment.

\* Largest number of member assets of the queue.
MaxQueueAssets == 2

\* The executions of the task for the queue.
QueueRuns == {1, 2}

\* The session has no loaded value.
Expired == -1

\* Mutant: the commit adds one to the value the database holds.
committed_items_in_database(loaded, stored) == stored + 1

\* queue.completed_items += 1; db.session.commit(): UPDATE ... SET
\* completed_items = <loaded value + 1>.
committed_items(loaded, stored) == loaded + 1

\* Lines 262-270: the queue is loaded, committed as 'processing', and the
\* loop header loads the expired row again for queue.assets.
QueueRunBegin(r) ==
    /\ run_pc[r] = "begin"
    /\ queue_status' = "processing"
    /\ run_loaded' = [run_loaded EXCEPT ![r] = queue_completed_items]
    /\ run_i' = [run_i EXCEPT ![r] = 1]
    /\ run_pc' = [run_pc EXCEPT ![r] = "loop"]
    /\ UNCHANGED <<queue_completed_items, queue_total_items, queue_assets, queue_zip,
                   marked, stale_writes>>
    /\ UNCHANGED not_queue

\* Lines 271-287 and 290-294, one asset: generate_3d_model returns a file,
\* returns a path that does not exist, or raises.  With a file the assignment
\* of line 287 reads completed_items, from the database when the session's
\* value is expired; an exception commits 'failed', which expires the session.
QueueRunGenerate(r) ==
    /\ run_pc[r] = "loop"
    /\ run_i[r] <= queue_total_items
    /\ \E outcome \in MemberOutcomes :
          CASE outcome = "file" ->
                 /\ run_loaded' = [run_loaded EXCEPT ![r] =
                        IF @ = Expired THEN queue_completed_items ELSE @]
                 /\ run_pc' = [run_pc EXCEPT ![r] = "commit"]
                 /\ UNCHANGED <<queue_assets, run_i>>
            [] outcome = "raised" ->
                 /\ queue_assets' = [queue_assets EXCEPT ![run_i[r]] = "failed"]
                 /\ run_loaded' = [run_loaded EXCEPT ![r] = Expired]
                 /\ run_i' = [run_i EXCEPT ![r] = @ + 1]
                 /\ UNCHANGED run_pc
            [] OTHER ->
                 /\ run_i' = [run_i EXCEPT ![r] = @ + 1]
                 /\ UNCHANGED <<queue_assets, run_loaded, run_pc>>
    /\ UNCHANGED <<queue_completed_items, queue_total_items, queue_status, queue_zip,
                   marked, stale_writes>>
    /\ UNCHANGED not_queue

\* Line 288: the commit of the asset as 'completed' and of the counter.
QueueRunCommit(r) ==
    /\ run_pc[r] = "commit"
    /\ queue_assets' = [queue_assets EXCEPT ![run_i[r]] = "completed"]
    /\ queue_completed_items' = committed_items(run_loaded[r], queue_completed_items)
    /\ marked' = marked + 1
    /\ stale_writes' = IF run_loaded[r] # queue_completed_items
                       THEN stale_writes + 1 ELSE stale_writes
    /\ run_loaded' = [run_loaded EXCEPT ![r] = Expired]
    /\ run_i' = [run_i EXCEPT ![r] = @ + 1]
    /\ run_pc' = [run_pc EXCEPT ![r] = "loop"]
    /\ UNCHANGED <<queue_total_items, queue_status, queue_zip>>
    /\ UNCHANGED not_queue

\* Lines 296-305: the zip when completed_items > 0, then 'completed'.
QueueRunFinish(r) ==
    /\ run_pc[r] = "loop"
    /\ run_i[r] > queue_total_items
    /\ LET items == IF run_loaded[r] = Expired THEN queue_completed_items
                    ELSE run_loaded[r]
       IN queue_zip' = IF items > 0 THEN "zip" ELSE queue_zip
    /\ queue_status' = "completed"
    /\ run_loaded' = [run_loaded EXCEPT ![r] = Expired]
    /\ run_pc' = [run_pc EXCEPT ![r] = "done"]
    /\ UNCHANGED <<queue_completed_items, queue_total_items, queue_assets, run_i,
                   marked, stale_writes>>
    /\ UNCHANGED not_queue

\* routes.py api_queue POST, lines 277-304: the queue and its pending members
\* are committed before the task is dispatched.
QueueRunsInit ==
    /\ queue_total_items \in 1..MaxQueueAssets
    /\ queue_completed_items = 0
    /\ queue_assets = [m \in 1..queue_total_items |-> "pending"]
    /\ queue_status = "pending"
    /\ queue_zip = ""
    /\ run_pc = [r \in QueueRuns |-> "begin"]
    /\ run_i = [r \in QueueRuns |-> 0]
    /\ run_loaded = [r \in QueueRuns |-> Expired]
    /\ marked = 0
    /\ stale_writes = 0

\* No execution for a queue is modelled.
QueueRunsIdle ==
    /\ queue_total_items = 0
    /\ queue_completed_items = 0
    /\ queue_assets = <<>>
    /\ queue_status = "none"
    /\ queue_zip = ""
    /\ run_pc = <<>>
    /\ run_i = <<>>
    /\ run_loaded = <<>>
    /\ marked = 0
    /\ stale_writes = 0

QueueRunsNext ==
    \E r \in QueueRuns :
        \/ QueueRunBegin(r)
        \/ QueueRunGenerate(r)
        \/ QueueRunCommit(r)
        \/ QueueRunFinish(r)

-----------------------------------------------------------------------------
\* instance/ai_modules/advanced_generator.py: _procedural_generation

\* GenerationConfig.complexity and detail_level are on a 1-10 scale.
ComplexityScale == 10

\* config.complexity = min(config.complexity, 5)
roblox_complexity == 5

\* What geometry_generator.generate_geometry does: a result with success, a
\* result without, or an exception.
GeometryOutcomes == {"success", "no_success", "raised"}

\* Lines 126-137: the geometry generator's mesh is returned as it is; without
\* success, or on an exception, the traditional path follows.
ProceduralGeometry ==
    /\ proc_pc = "geometry"
    /\ \E outcome \in GeometryOutcomes :
          /\ proc_geometry' = outcome
          /\ proc_pc' = IF outcome = "success" THEN "done" ELSE "base"
    /\ UNCHANGED <<proc_requested, proc_config, proc_tested, proc_passes>>
    /\ UNCHANGED not_proc

\* Lines 140-143 and 298-302: _analyze_prompt, then _generate_base_shape,
\* which lowers complexity and detail_level on the caller's config object.
ProceduralBaseShape ==
    /\ proc_pc = "base"
    /\ proc_config' = [complexity |-> Min(proc_config.complexity, roblox_complexity),
                       detail_level |-> Min(proc_config.detail_level, roblox_complexity)]
    /\ proc_pc' = "details"
    /\ UNCHANGED <<proc_requested, proc_geometry, proc_tested, proc_passes>>
    /\ UNCHANGED not_proc

\* Lines 146 and 649-666: _add_details with the same config object.
ProceduralAddDetails ==
    /\ proc_pc = "details"
    /\ proc_tested' = proc_config.complexity
    /\ proc_passes' =
          IF keeps_simple(proc_config.complexity) THEN {}
          ELSE {p \in {"surface", "structural", "fine"} :
                  \/ p = "surface" /\ wants_surface_details(proc_config.complexity)
                  \/ p = "structural" /\ wants_structural_details(proc_config.complexity)
                  \/ p = "fine" /\ wants_fine_details(proc_config.complexity)}
    /\ proc_pc' = "transform"
    /\ UNCHANGED <<proc_requested, proc_config, proc_geometry>>
    /\ UNCHANGED not_proc

\* Lines 149-151: _apply_transformations and the return.
ProceduralReturn ==
    /\ proc_pc = "transform"
    /\ proc_pc' = "done"
    /\ UNCHANGED <<proc_requested, proc_config, proc_geometry, proc_tested, proc_passes>>
    /\ UNCHANGED not_proc

\* Lines 38-42 and 119: a call with a config on the 1-10 scales.
ProceduralInit ==
    /\ proc_config \in [complexity : 1..ComplexityScale, detail_level : 1..ComplexityScale]
    /\ proc_requested = proc_config.complexity
    /\ proc_geometry = "none"
    /\ proc_tested = 0
    /\ proc_passes = {}
    /\ proc_pc = "geometry"

\* No call of _procedural_generation is in progress.
ProceduralIdle ==
    /\ proc_config = [complexity |-> 5, detail_level |-> 7]
    /\ proc_requested = 5
    /\ proc_geometry = "none"
    /\ proc_tested = 0
    /\ proc_passes = {}
    /\ proc_pc = "idle"

ProceduralNext ==
    \/ ProceduralGeometry
    \/ ProceduralBaseShape
    \/ ProceduralAddDetails
    \/ ProceduralReturn

-----------------------------------------------------------------------------
\* routes.py: the handlers that serve a finished GenerationJob or AssetQueue

\* Largest number of requests to these handlers.
MaxGuardedRequests == 3

FileTypes == {"obj", "fbx", "blend", "zip"}

GuardedResponse(handler, code, acted) ==
    [handler |-> handler, code |-> code, acted |-> acted]

\* Mutant: only a failed job is turned away.
job_not_failed(job) == job.status # "failed"

\* if job.status != 'completed': the handler answers and returns.
job_completed(job) == job.status = "completed"

\* if queue.status != 'completed' or not queue.zip_path
queue_zip_ready(queue) == queue.status = "completed" /\ queue.zip_path

\* A handler's answer is recorded; what it wrote to the job is in job.
Answer(response, job) ==
    /\ guarded_requests < MaxGuardedRequests
    /\ guarded_requests' = guarded_requests + 1
    /\ guarded_response' = response
    /\ guarded_job' = job
    /\ UNCHANGED guarded_queue
    /\ UNCHANGED not_guard

\* Lines 910-932: the file of the asked type is sent when the job is
\* completed, the path is set and the file exists; every other case flashes a
\* message and redirects to the download page.
DownloadFile ==
    \E file_type \in FileTypes :
       IF ~job_completed(guarded_job)
       THEN Answer(GuardedResponse("download_file", 302, FALSE), guarded_job)
       ELSE IF file_type \in guarded_job.files
       THEN Answer(GuardedResponse("download_file", 200, TRUE), guarded_job)
       ELSE Answer(GuardedResponse("download_file", 302, FALSE), guarded_job)

\* Lines 375-389: generate_smart_variations either returns the variations,
\* which are committed, or raises, which is answered with 500.
GenerateVariations ==
    \E works \in BOOLEAN :
       IF ~job_completed(guarded_job)
       THEN Answer(GuardedResponse("generate_variations", 400, FALSE), guarded_job)
       ELSE IF works
       THEN Answer(GuardedResponse("generate_variations", 200, TRUE),
                   [guarded_job EXCEPT !.variations = TRUE])
       ELSE Answer(GuardedResponse("generate_variations", 500, TRUE), guarded_job)

\* Lines 537-552.
GenerateLod ==
    \E works \in BOOLEAN :
       IF ~job_completed(guarded_job)
       THEN Answer(GuardedResponse("generate_lod", 400, FALSE), guarded_job)
       ELSE IF works
       THEN Answer(GuardedResponse("generate_lod", 200, TRUE),
                   [guarded_job EXCEPT !.lod_levels = TRUE])
       ELSE Answer(GuardedResponse("generate_lod", 500, TRUE), guarded_job)

\* Lines 555-571.
FixForRoblox ==
    \E works \in BOOLEAN :
       IF ~job_completed(guarded_job)
       THEN Answer(GuardedResponse("fix_for_roblox", 400, FALSE), guarded_job)
       ELSE IF works
       THEN Answer(GuardedResponse("fix_for_roblox", 200, TRUE),
                   [guarded_job EXCEPT !.roblox_fixed = TRUE])
       ELSE Answer(GuardedResponse("fix_for_roblox", 500, TRUE), guarded_job)

\* Lines 308-323: 400 unless the queue is completed and has a zip_path, the
\* file when it exists, 404 when it does not.
DownloadQueueZip ==
    IF ~queue_zip_ready(guarded_queue)
    THEN Answer(GuardedResponse("download_queue_zip", 400, FALSE), guarded_job)
    ELSE IF guarded_queue.zip_file
    THEN Answer(GuardedResponse("download_queue_zip", 200, TRUE), guarded_job)
    ELSE Answer(GuardedResponse("download_queue_zip", 404, TRUE), guarded_job)

\* tasks.py generate_3d_model_task, the commits of lines 24-26, 91 and
\* 107-113: processing, then completed with the paths of the files there are,
\* or failed.
GuardedJobTask ==
    /\ \/ /\ guarded_job.status = "pending"
          /\ guarded_job' = [guarded_job EXCEPT !.status = "processing"]
       \/ /\ guarded_job.status = "processing"
          /\ \E written \in {{"obj"}, {"obj", "fbx"}, {"obj", "fbx", "blend"}} :
                guarded_job' = [guarded_job EXCEPT !.status = "completed", !.files = written]
       \/ /\ guarded_job.status = "processing"
          /\ guarded_job' = [guarded_job EXCEPT !.status = "failed"]
    /\ UNCHANGED <<guarded_queue, guarded_response, guarded_requests>>
    /\ UNCHANGED not_guard

\* tasks.py process_asset_queue_task, the commits of lines 266-267, 301-303
\* and of the outer except block: processing, then completed, with a zip_path
\* when an asset was completed, or failed.  A later execution starts from
\* whatever the row holds.
GuardedQueueTask ==
    /\ \/ guarded_queue' = [guarded_queue EXCEPT !.status = "processing"]
       \/ /\ guarded_queue.status = "processing"
          /\ \E zipped \in BOOLEAN :
                guarded_queue' = [guarded_queue EXCEPT
                                    !.status = "completed",
                                    !.zip_path = @ \/ zipped,
                                    !.zip_file = @ \/ zipped]
       \/ /\ guarded_queue.status = "processing"
          /\ guarded_queue' = [guarded_queue EXCEPT !.status = "failed"]
       \/ /\ guarded_queue.zip_file
          /\ guarded_queue' = [guarded_queue EXCEPT !.zip_file = FALSE]
    /\ guarded_queue' # guarded_queue
    /\ UNCHANGED <<guarded_job, guarded_response, guarded_requests>>
    /\ UNCHANGED not_guard

\* routes.py lines 116-127 and 277-298: a pending job and a pending queue.
GuardedInit ==
    /\ guarded_job = [status |-> "pending", files |-> {}, variations |-> FALSE,
                      lod_levels |-> FALSE, roblox_fixed |-> FALSE]
    /\ guarded_queue = [status |-> "pending", zip_path |-> FALSE, zip_file |-> FALSE]
    /\ guarded_response = GuardedResponse("none", 0, FALSE)
    /\ guarded_requests = 0

\* No request to these handlers is modelled.
GuardedIdle ==
    /\ guarded_job = [status |-> "absent", files |-> {}, variations |-> FALSE,
                      lod_levels |-> FALSE, roblox_fixed |-> FALSE]
    /\ guarded_queue = [status |-> "absent", zip_path |-> FALSE, zip_file |-> FALSE]
    /\ guarded_response = GuardedResponse("none", 0, FALSE)
    /\ guarded_requests = MaxGuardedRequests

GuardedNext ==
    \/ DownloadFile
    \/ GenerateVariations
    \/ GenerateLod
    \/ FixForRoblox
    \/ DownloadQueueZip
    \/ GuardedJobTask
    \/ GuardedQueueTask

-----------------------------------------------------------------------------
\* routes.py: the prompt of the GenerationJob rows the request handlers insert

\* Largest number of GenerationJob rows, and of prompts in one queue request.
MaxPromptRows == 2

\* db.session.add(GenerationJob(prompt=p, ...)); db.session.commit()
InsertPrompt(o, p) ==
    /\ Len(prompt_rows) < MaxPromptRows
    /\ prompt_rows' = Append(prompt_rows, [origin |-> o, prompt |-> p])

\* /generate POST, lines 99-127: the form's prompt, '' when it is missing, is
\* stripped; an empty result is answered with a redirect and no row.  What
\* follows the insert does not write the prompt.
GeneratePrompt ==
    /\ queue_prompts_left = 0
    /\ \E form_prompt \in Prompts :
          LET stripped == strip(form_prompt)
          IN IF stripped = <<>>
             THEN /\ prompt_code' = 302
                  /\ UNCHANGED prompt_rows
             ELSE /\ InsertPrompt("generate", stripped)
                  /\ prompt_code' = 200
    /\ UNCHANGED queue_prompts_left
    /\ UNCHANGED not_prompt

\* /api/queue POST, lines 277-286: the AssetQueue row for the prompts of the
\* request body.
ApiQueuePost ==
    /\ queue_prompts_left = 0
    /\ \E n \in 1..MaxPromptRows :
          /\ Len(prompt_rows) + n <= MaxPromptRows
          /\ queue_prompts_left' = n
    /\ prompt_code' = 0
    /\ UNCHANGED prompt_rows
    /\ UNCHANGED not_prompt

\* /api/queue POST, lines 288-306: each prompt of the list is inserted as it
\* was sent; after the last one the queue is answered.
ApiQueuePrompt ==
    /\ queue_prompts_left > 0
    /\ \E sent \in Prompts : InsertPrompt("queue", sent)
    /\ queue_prompts_left' = queue_prompts_left - 1
    /\ prompt_code' = IF queue_prompts_left = 1 THEN 200 ELSE 0
    /\ UNCHANGED not_prompt

\* n8n_webhook with action 'generate_model' and an accepted secret, lines
\* 1356-1372: data.get('prompt', '') is inserted as it is.
N8nGenerateModel ==
    /\ queue_prompts_left = 0
    /\ \E given \in BOOLEAN, sent \in Prompts :
          InsertPrompt("webhook", IF given THEN sent ELSE <<>>)
    /\ prompt_code' = 200
    /\ UNCHANGED queue_prompts_left
    /\ UNCHANGED not_prompt

PromptInit ==
    /\ prompt_rows = <<>>
    /\ queue_prompts_left = 0
    /\ prompt_code = 0

\* No request that inserts a row is modelled.
PromptIdle ==
    /\ prompt_rows = <<>>
    /\ queue_prompts_left = 0
    /\ prompt_code = -1

PromptNext ==
    \/ GeneratePrompt
    \/ ApiQueuePost
    \/ ApiQueuePrompt
    \/ N8nGenerateModel

-----------------------------------------------------------------------------
\* The specifications

InitConv ==
    /\ ConvInit
    /\ DetIdle /\ GenIdle /\ JobsInit /\ AnIdle /\ TaskIdle /\ BatchIdle
    /\ WebhookIdle /\ PollIdle /\ BridgeIdle /\ VideoIdle /\ QueueRunsIdle
    /\ ProceduralIdle /\ GuardedIdle /\ PromptIdle

InitDetails ==
    /\ DetInit
    /\ ConvIdle /\ GenIdle /\ JobsInit /\ AnIdle /\ TaskIdle /\ BatchIdle
    /\ WebhookIdle /\ PollIdle /\ BridgeIdle /\ VideoIdle /\ QueueRunsIdle
    /\ ProceduralIdle /\ GuardedIdle /\ PromptIdle

InitGen ==
    /\ GenInit
    /\ ConvIdle /\ DetIdle /\ JobsInit /\ AnIdle /\ TaskIdle /\ BatchIdle
    /\ WebhookIdle /\ PollIdle /\ BridgeIdle /\ VideoIdle /\ QueueRunsIdle
    /\ ProceduralIdle /\ GuardedIdle /\ PromptIdle

InitJobs ==
    /\ JobsInit
    /\ ConvIdle /\ DetIdle /\ GenIdle /\ AnIdle /\ TaskIdle /\ BatchIdle
    /\ WebhookIdle /\ PollIdle /\ BridgeIdle /\ VideoIdle /\ QueueRunsIdle
    /\ ProceduralIdle /\ GuardedIdle /\ PromptIdle

InitAnalyze ==
    /\ AnInit
    /\ ConvIdle /\ DetIdle /\ GenIdle /\ JobsInit /\ TaskIdle /\ BatchIdle
    /\ WebhookIdle /\ PollIdle /\ BridgeIdle /\ VideoIdle /\ QueueRunsIdle
    /\ ProceduralIdle /\ GuardedIdle /\ PromptIdle

InitTask ==
    /\ TaskInit
    /\ ConvIdle /\ DetIdle /\ GenIdle /\ JobsInit /\ AnIdle /\ BatchIdle
    /\ WebhookIdle /\ PollIdle /\ BridgeIdle /\ VideoIdle /\ QueueRunsIdle
    /\ ProceduralIdle /\ GuardedIdle /\ PromptIdle

InitBatch ==
    /\ BatchInit
    /\ ConvIdle /\ DetIdle /\ GenIdle /\ JobsInit /\ AnIdle /\ TaskIdle
    /\ WebhookIdle /\ PollIdle /\ BridgeIdle /\ VideoIdle /\ QueueRunsIdle
    /\ ProceduralIdle /\ GuardedIdle /\ PromptIdle

InitWebhook ==
    /\ WebhookInit
    /\ ConvIdle /\ DetIdle /\ GenIdle /\ JobsInit /\ AnIdle /\ TaskIdle
    /\ BatchIdle /\ PollIdle /\ BridgeIdle /\ VideoIdle /\ QueueRunsIdle
    /\ ProceduralIdle /\ GuardedIdle /\ PromptIdle

InitPoll ==
    /\ PollInit
    /\ ConvIdle /\ DetIdle /\ GenIdle /\ JobsInit /\ AnIdle /\ TaskIdle
    /\ BatchIdle /\ WebhookIdle /\ BridgeIdle /\ VideoIdle /\ QueueRunsIdle
    /\ ProceduralIdle /\ GuardedIdle /\ PromptIdle

InitBridge ==
    /\ BridgeInit
    /\ ConvIdle /\ DetIdle /\ GenIdle /\ JobsInit /\ AnIdle /\ TaskIdle
    /\ BatchIdle /\ WebhookIdle /\ PollIdle /\ VideoIdle /\ QueueRunsIdle
    /\ ProceduralIdle /\ GuardedIdle /\ PromptIdle

InitVideo ==
    /\ VideoInit
    /\ ConvIdle /\ DetIdle /\ GenIdle /\ JobsInit /\ AnIdle /\ TaskIdle
    /\ BatchIdle /\ WebhookIdle /\ PollIdle /\ BridgeIdle /\ QueueRunsIdle
    /\ ProceduralIdle /\ GuardedIdle /\ PromptIdle

InitQueueRuns ==
    /\ QueueRunsInit
    /\ ConvIdle /\ DetIdle /\ GenIdle /\ JobsInit /\ AnIdle /\ TaskIdle
    /\ BatchIdle /\ WebhookIdle /\ PollIdle /\ BridgeIdle /\ VideoIdle
    /\ ProceduralIdle /\ GuardedIdle /\ PromptIdle

InitProcedural ==
    /\ ProceduralInit
    /\ ConvIdle /\ DetIdle /\ GenIdle /\ JobsInit /\ AnIdle /\ TaskIdle
    /\ BatchIdle /\ WebhookIdle /\ PollIdle /\ BridgeIdle /\ VideoIdle
    /\ QueueRunsIdle /\ GuardedIdle /\ PromptIdle

InitGuarded ==
    /\ GuardedInit
    /\ ConvIdle /\ DetIdle /\ GenIdle /\ JobsInit /\ AnIdle /\ TaskIdle
    /\ BatchIdle /\ WebhookIdle /\ PollIdle /\ BridgeIdle /\ VideoIdle
    /\ QueueRunsIdle /\ ProceduralIdle /\ PromptIdle

InitPrompt ==
    /\ PromptInit
    /\ ConvIdle /\ DetIdle /\ GenIdle /\ JobsInit /\ AnIdle /\ TaskIdle
    /\ BatchIdle /\ WebhookIdle /\ PollIdle /\ BridgeIdle /\ VideoIdle
    /\ QueueRunsIdle /\ ProceduralIdle /\ GuardedIdle

SpecConv == InitConv /\ [][ConvNext]_vars

SpecDetails == InitDetails /\ [][DetNext]_vars

SpecGen == InitGen /\ [][GenNext]_vars


SpecAnalyze == InitAnalyze /\ [][AnNext]_vars

SpecTask == InitTask /\ [][TaskNext]_vars

SpecBatch == InitBatch /\ [][BatchNext]_vars

SpecWebhook == InitWebhook /\ [][WebhookNext]_vars

SpecPoll == InitPoll /\ [][PollNext]_vars

\* The handler's thread keeps running: a request returns or times out, and a
\* sleep ends.
SpecPollFair == SpecPoll /\ WF_vars(PollNext)

SpecBridge == InitBridge /\ [][BridgeNext]_vars

SpecVideo == InitVideo /\ [][VideoNext]_vars

SpecQueueRuns == InitQueueRuns /\ [][QueueRunsNext]_vars

SpecProcedural == InitProcedural /\ [][ProceduralNext]_vars

SpecGuarded == InitGuarded /\ [][GuardedNext]_vars
SpecJobs == InitJobs /\ [][JobsNext]_vars

\* The request handlers, the worker and the background threads take every
\* step they can take.

SpecPrompt == InitPrompt /\ [][PromptNext]_vars
SpecJobsFair == SpecJobs /\ WF_vars(JobsNext)

-----------------------------------------------------------------------------
\* C1: convert_to_fbx never raises to its caller; whichever tiers fail, the
\* call returns a file path, the newly written FBX path or the original
\* obj_path.
C1_FbxNeverRaises ==
    /\ conv_result.kind # "raise"
    /\ (output_format = "fbx" /\ conv_pc = "done") =>
          /\ conv_result.kind = "path"
          /\ conv_result.path \in {GeneratedPath(job_id, "fbx"), obj_path}

C1_Witness ==
    /\ output_format = "fbx" /\ conv_pc = "done"
    /\ Len(tried) = 4
    /\ \A i \in 1..3 : ~tried[i].ok
    /\ conv_result = Return(obj_path)

\* The order of the tiers as the specification states it.
C2_Order == <<"blender", "trimesh", "engine", "passthrough">>

\* C2: the FBX chain tries Blender CLI, trimesh's exporter, the export engine
\* and the passthrough in that order, each at most once, a tier only after
\* every earlier tier has failed, and returns at the first tier that succeeds.
C2_FbxTierOrder ==
    output_format = "fbx" =>
        /\ Len(tried) <= Len(C2_Order)
        /\ \A i \in 1..Len(tried) : tried[i].tier = C2_Order[i]
        /\ \A i \in 1..(Len(tried) - 1) : ~tried[i].ok
        /\ (conv_pc = "done") <=> (Len(tried) > 0 /\ tried[Len(tried)].ok)
        /\ (conv_pc # "done") => (conv_pc = C2_Order[Len(tried) + 1])

C2_Witness ==
    /\ output_format = "fbx" /\ conv_pc = "done"
    /\ Len(tried) = 3
    /\ ~tried[1].ok /\ ~tried[2].ok /\ tried[3].ok
    /\ conv_result = Return(GeneratedPath(job_id, "fbx"))

\* C3 as claimed: with no Blender executable, convert_to_fbx returns the
\* original .obj path.
C3_Original ==
    (output_format = "fbx" /\ conv_pc = "done" /\ ~conv_env.blender_found)
        => conv_result = Return(obj_path)

\* C3 as amended: with no Blender executable the Blender tier fails and
\* convert_to_fbx does not raise; it returns the original .obj path when the
\* trimesh tier and the export-engine tier fail too, and otherwise the FBX path
\* written by the first of those two tiers that succeeds.
C3_NoBlenderDegrades ==
    (output_format = "fbx" /\ ~conv_env.blender_found) =>
        /\ (Len(tried) >= 1) => ~tried[1].ok
        /\ conv_result.kind # "raise"
        /\ (conv_pc = "done") =>
              /\ conv_result.kind = "path"
              /\ IF \E i \in 1..Len(tried) :
                        tried[i].tier \in {"trimesh", "engine"} /\ tried[i].ok
                 THEN conv_result.path = GeneratedPath(job_id, "fbx")
                 ELSE conv_result.path = obj_path

C3_Witness ==
    /\ output_format = "fbx" /\ conv_pc = "done" /\ ~conv_env.blender_found
    /\ tried[Len(tried)].tier = "passthrough"
    /\ conv_result = Return(obj_path)

C4_Order == <<"blender", "engine", "passthrough">>

C10_DetailThresholds ==
    /\ ("surface" \in applied \/ detailed_mesh.bumps > 0) => config.complexity >= 7
    /\ ("structural" \in applied \/ detailed_mesh.panels > 0) => config.complexity >= 8
    /\ ("fine" \in applied \/ detailed_mesh.cylinders > 0) => config.complexity >= 9
    /\ (det_pc = "done" /\ config.complexity <= 3) =>
          /\ det_result = base_mesh
          /\ det_result.object = "base"
          /\ applied = {}
    /\ base_mesh.bumps = 0 /\ base_mesh.panels = 0 /\ base_mesh.cylinders = 0

C10_Witness ==
    /\ det_pc = "done"
    /\ config.complexity = 8
    /\ applied = {"surface", "structural"}
    /\ det_result = Mesh("copy", 20, 5, 0)

\* C7 as claimed, for a call whose basic generator and direct exports work:
\* for every non-empty prompt generate_3d_model returns the path of a file it
\* has written, whatever the optional AI service, advanced generator, material
\* generator and export engine do.
C7_AlwaysReturnsFile ==
    (/\ gen_pc = "done"
     /\ ~prompt_is_empty(prompt_arg)
     /\ failed \cap {"basic_generator", "obj_export", "stl_export"} = {})
        => /\ gen_result.kind = "path"
           /\ gen_result.path \in files

\* C8: generate_3d_model raises in exactly three cases: ValueError for an empty
\* prompt, and the wrapped Exception when no generator produced a mesh or when
\* the OBJ and the STL export both failed.  A failure of the multimodal
\* processor, the AI service, the material or texture generator, the output
\* directory, the export engine or the OBJ export alone leaves a returned path.
C8_RaisesOnlyThreeCases ==
    gen_pc = "done" =>
        /\ gen_result.kind \in {"path", "raise"}
        /\ (gen_result.kind = "raise") <=>
              \/ Len(strip(prompt_arg)) = 0
              \/ mesh = "None"
              \/ {"obj_export", "stl_export"} \subseteq failed
        /\ (gen_result.exc = "ValueError") <=> (Len(strip(prompt_arg)) = 0)
        /\ (gen_result.kind = "raise" /\ gen_result.exc # "ValueError") =>
              gen_result.error \in {"Failed to generate 3D geometry",
                                    "create_default_mesh failed",
                                    "All export methods failed"}
        /\ (gen_result.kind = "path") => gen_result.path \in files

C8_Witness ==
    /\ gen_pc = "done"
    /\ {"multimodal", "ai_service", "material", "export_engine", "obj_export"} \subseteq failed
    /\ gen_result = GenReturn(OutputPath("generated", "stl"))

\* C9: from validation on, the complexity generate_3d_model works with is the
\* argument brought into 1..10 (10 for a larger argument, 1 for a smaller
\* one), and the GenerationConfig handed to the advanced generator, the only
\* generation step that takes a complexity, carries that value.
C9_ComplexityClamped ==
    /\ (gen_pc # "validate" /\ gen_result.exc # "ValueError") =>
          /\ complexity \in 1..10
          /\ (complexity_arg > 10) => (complexity = 10)
          /\ (complexity_arg < 1) => (complexity = 1)
          /\ (complexity_arg \in 1..10) => (complexity = complexity_arg)
    /\ (gen_config # NoConfig) =>
          /\ gen_config.complexity \in 1..10
          /\ gen_config.complexity = complexity

C9_Witness ==
    /\ complexity_arg < 1
    /\ gen_config # NoConfig
    /\ gen_config.complexity = 1
    /\ mesh = "advanced"

\* The status changes the specification allows.
AllowedChanges ==
    {<<"pending", "processing">>, <<"processing", "completed">>,
     <<"processing", "failed">>}

\* C5 as claimed: every change of the status of a GenerationJob row is pending
\* to processing, processing to completed or processing to failed.
C5_OnlyAllowedChanges ==
    [][\A j \in JobIds :
          (status[j] # "absent" /\ status'[j] # status[j])
              => <<status[j], status'[j]>> \in AllowedChanges]_vars

\* C6 as claimed: once the status of a GenerationJob row is completed or
\* failed, no step changes it.
C6_TerminalStatuses ==
    [][\A j \in JobIds :
          (status[j] \in {"completed", "failed"}) => (status'[j] = status[j])]_vars

\* C11: _analyze_prompt returns exactly one shape category: the first of
\* vehicle, building, furniture, character, weapon, nature, abstract that has
\* a keyword occurring in the lower-cased prompt, and abstract when none has.
C11_Categories ==
    <<"vehicle", "building", "furniture", "character", "weapon", "nature", "abstract">>

C11_Hit(c) ==
    \E t \in 1..Len(shape_types) :
        /\ shape_types[t].key = c
        /\ \E n \in 1..Len(shape_types[t].keywords) :
               contains(lower(an_prompt), shape_types[t].keywords[n])

C11_FirstMatchingCategory ==
    an_pc = "done" =>
        \E i \in 1..Len(C11_Categories) :
            /\ analysis.shape_type = C11_Categories[i]
            /\ \A j \in 1..(i - 1) : ~C11_Hit(C11_Categories[j])
            /\ \/ C11_Hit(C11_Categories[i])
               \/ /\ C11_Categories[i] = "abstract"
                  /\ \A j \in 1..Len(C11_Categories) : ~C11_Hit(C11_Categories[j])

\* "Cart" holds a vehicle keyword and an abstract keyword, in capitals.
C11_Witness ==
    /\ an_pc = "done"
    /\ an_prompt = <<"C", "a", "r", "t">>
    /\ C11_Hit("vehicle") /\ C11_Hit("abstract")
    /\ analysis.shape_type = "vehicle"

\* C12: the estimated complexity is 5 plus the number of detail words in the
\* prompt minus the number of simplicity words in it, clamped to 1..10.
C12_Present(words) ==
    Cardinality({n \in 1..Len(words) : contains(lower(an_prompt), words[n])})

C12_EstimateClamped ==
    an_pc = "done" =>
        LET raw == 5 + C12_Present(detail_words) - C12_Present(simple_words)
        IN /\ analysis.complexity \in 1..10
           /\ analysis.complexity = IF raw < 1 THEN 1 ELSE IF raw > 10 THEN 10 ELSE raw

\* Seven detail words and no simplicity word: 12 is clamped to 10.
C12_Witness ==
    /\ an_pc = "done"
    /\ C12_Present(detail_words) = 7
    /\ C12_Present(simple_words) = 0
    /\ analysis.complexity = 10

\* C13 as stated: the reported progress values are among 10, 20, 60, 80, 100
\* and no reported value is lower than an earlier one.
C13_Original ==
    /\ \A i \in 1..Len(reports) : reports[i] \in {10, 20, 60, 80, 100}
    /\ \A i, k \in 1..Len(reports) : i < k => reports[i] <= reports[k]

C13_IsPrefix(s, t) == Len(s) <= Len(t) /\ s = SubSeq(t, 1, Len(s))

C13_Milestones(s) ==
    \/ C13_IsPrefix(s, <<10, 20, 60, 80, 100>>)
    \/ C13_IsPrefix(s, <<10, 50, 60, 80, 100>>)

\* C13: the values reported in one run are 10, then 20 (cache miss) or 50
\* (cache hit), then 60, 80, 100, in that order and as far as the run gets; a
\* run that raises may report 0 after them as its last value; a run that
\* returns has reported all five.
C13_ProgressReports ==
    /\ \/ C13_Milestones(reports)
       \/ /\ task_pc = "raised"
          /\ reports # <<>>
          /\ reports[Len(reports)] = 0
          /\ C13_Milestones(SubSeq(reports, 1, Len(reports) - 1))
    /\ task_pc = "returned" =>
          reports \in {<<10, 20, 60, 80, 100>>, <<10, 50, 60, 80, 100>>}

\* A run served from the cache has returned.
C13_Witness ==
    /\ task_pc = "returned"
    /\ reports = <<10, 50, 60, 80, 100>>

\* C14: a run that raised left its row failed with error_message the text of
\* the exception, and a run that returned left its row completed.
C14_OutcomePersisted ==
    /\ task_pc = "raised" => (row_status = "failed" /\ row_error = exc)
    /\ task_pc = "returned" => row_status = "completed"

\* C16: the access_count of the cache entry equals the number of runs served
\* from it.
C16_AccessCountIsHits ==
    cache_row => access_count = cache_hits

\* C15: whenever zip_path is set and the batch is marked completed, every
\* member GenerationJob has status completed.
C15_ZipOnlyWhenAllCompleted ==
    (zip_path # "" /\ batch_status = "completed") =>
        \A m \in 1..batch_size : member_status[m] = "completed"

\* C17: a request to the receiver adds a row or changes the trigger
\* statistics only if the secret it carries equals the webhook's secret.
C17_OnlyWithMatchingSecret ==
    [][(rows_created' # rows_created \/ trigger_count' > trigger_count) =>
          (IF wh_request'.header # "" THEN wh_request'.header ELSE wh_request'.body)
              = secret_key]_vars

C19_CancelsOnlyPendingOrProcessing ==
    [][(bridge_clock' # bridge_clock /\ bridge_request'.op = "cancel") =>
          LET j == bridge_request'.job
          IN /\ bridge_jobs'[j] # bridge_jobs[j] =>
                   bridge_jobs[j].status \in {"pending", "processing"}
             /\ bridge_jobs[j].status \in {"completed", "failed"} =>
                   (bridge_code' = 400 /\ bridge_jobs'[j] = bridge_jobs[j])]_vars

\* C20: a call of get_video_info, extract_frames or process_video_for_3d
\* with the path of a file that does not exist raises FileNotFoundError.
C20_MissingFileRaisesFileNotFound ==
    (video_pc = "done" /\ ~video_exists) => video_raised = "FileNotFoundError"

C21_Completed == Cardinality({m \in 1..queue_total_items : queue_assets[m] = "completed"})

\* C21: the counter is written as loaded value plus one, so it never exceeds
\* the number of commits that marked an asset completed, and falls below it
\* as soon as one of them was made from an outdated value: that increment, or
\* one it overwrote, is lost.
C21_IncrementLost ==
    /\ queue_completed_items <= marked
    /\ stale_writes > 0 => queue_completed_items < marked

\* Both executions have ended and the counter is smaller than the number of
\* members that are completed.
C21_Witness ==
    /\ \A r \in QueueRuns : run_pc[r] = "done"
    /\ stale_writes > 0
    /\ queue_completed_items < C21_Completed

\* C29: completed_items equals the number of member jobs with status
\* completed and never exceeds total_items.
C29_CounterMatchesMembers ==
    /\ queue_completed_items = C21_Completed
    /\ queue_completed_items <= queue_total_items

\* The step of the task that has just returned when task_pc takes the value.
C22_Entered(pc) == task_pc' = pc /\ task_pc # pc

\* C22: the job is marked completed only by the step after convert_to_blend
\* returned, convert_to_blend starts only after the report that follows the
\* return of convert_to_fbx, and convert_to_fbx starts only after the report
\* that follows a generated OBJ path or a cache hit; 'completed' reaches the
\* database only in the commit that follows.
C22_StepsInOrder ==
    [][/\ (job_status' = "completed" /\ job_status # "completed") => task_pc = "blend"
       /\ (row_status' = "completed" /\ row_status # "completed") =>
              (task_pc = "commit" /\ job_status = "completed")
       /\ C22_Entered("commit") => task_pc = "project"
       /\ C22_Entered("project") => task_pc = "blend"
       /\ C22_Entered("blend") => task_pc = "report80"
       /\ C22_Entered("report80") => task_pc = "fbx"
       /\ C22_Entered("fbx") => task_pc = "report60"
       /\ C22_Entered("report60") => task_pc \in {"generate", "report50"}
       /\ C22_Entered("report50") => (task_pc = "lookup" /\ cache_row /\ cache_file)
       /\ C22_Entered("generate") => task_pc = "report20"]_vars

\* A run that hit the cache has committed 'completed' after both conversions.
C22_Witness ==
    /\ row_status = "completed"
    /\ task_pc = "report100"
    /\ \E i \in 1..Len(reports) : reports[i] = progress_cached

\* C23: when the traditional procedural path has run, the complexity
\* _add_details compared is the one the caller requested, and a request of 7
\* or more has the surface pass, of 8 or more the structural pass, of 9 or
\* more the fine pass.
C23_RequestedComplexityGetsDetails ==
    (proc_pc = "done" /\ proc_geometry # "success") =>
        /\ proc_tested = proc_requested
        /\ proc_requested >= 7 => "surface" \in proc_passes
        /\ proc_requested >= 8 => "structural" \in proc_passes
        /\ proc_requested >= 9 => "fine" \in proc_passes

\* C24: the Blender tier succeeds only when Blender was found, the process
\* exited 0 within the timeout and the output file exists; after a non-zero
\* exit, a missing output file or a timeout the tier has failed, the call is
\* not ended by it, and the next tier of the chain is the one tried next.
C24_BlenderTierFailsOver ==
    \A i \in 1..Len(tried) :
        tried[i].tier = "blender" =>
            /\ tried[i].ok <=> (conv_env.blender_found /\ conv_env.blender_run = "ok")
            /\ tried[i].ok => conv_result = Return(GeneratedPath(job_id, output_format))
            /\ ~tried[i].ok =>
                  /\ conv_pc # "blender"
                  /\ Len(tried) = i => conv_pc = chain_of(output_format)[2]
                  /\ Len(tried) > i => tried[i + 1].tier = chain_of(output_format)[2]

\* Blender was found and timed out, and the FBX call went on to trimesh.
C24_Witness ==
    /\ conv_env.blender_found /\ conv_env.blender_run = "timeout"
    /\ output_format = "fbx"
    /\ Len(tried) >= 2
    /\ tried[1] = [tier |-> "blender", ok |-> FALSE]
    /\ tried[2].tier = "trimesh"

C25_JobHandlers == {"download_file", "generate_variations", "generate_lod", "fix_for_roblox"}

\* C25: a request to download_file, generate_variations, generate_lod or
\* fix_for_roblox gets past the status check only for a completed job, and a
\* request for the queue zip only for a completed queue with a zip_path; a
\* request that is turned away is answered 400 (302 by download_file) and
\* leaves the job and the queue rows as they were.
C25_OnlyCompletedIsServed ==
    [][guarded_requests' # guarded_requests =>
         LET r == guarded_response'
             ready == IF r.handler \in C25_JobHandlers
                      THEN guarded_job.status = "completed"
                      ELSE guarded_queue.status = "completed" /\ guarded_queue.zip_path
         IN /\ r.acted => ready
            /\ ~ready => /\ ~r.acted
                         /\ r.code = IF r.handler = "download_file" THEN 302 ELSE 400
                         /\ guarded_job' = guarded_job
                         /\ guarded_queue' = guarded_queue
            /\ guarded_job' # guarded_job => (ready /\ r.handler \in C25_JobHandlers)]_vars

\* fix_for_roblox was refused for a job that is still processing.
C25_Witness ==
    /\ guarded_response = GuardedResponse("fix_for_roblox", 400, FALSE)
    /\ guarded_job.status = "processing"
    /\ ~guarded_job.roblox_fixed

\* C26: a job that is cancelled is cancelled after every step, whatever the
\* step is.
C26_CancelledStaysCancelled ==
    [][\A j \in DOMAIN bridge_jobs :
          bridge_jobs[j].status = "cancelled" => bridge_jobs'[j].status = "cancelled"]_vars

\* C27: the session never holds a new AssetCache object for a cache key that
\* has a row already, and no run in which generation succeeded ends with the
\* job failed by the IntegrityError of that insert.
C27_NoDuplicateCacheInsert ==
    /\ ~(cache_entry /\ cache_row)
    /\ exc = IntegrityError => row_status # "failed"

\* C28: every GenerationJob row that is pending or processing is completed or
\* failed at some later time.
C28_EveryJobEnds ==
    \A j \in JobIds :
        (status[j] \in {"pending", "processing"}) ~> (status[j] \in {"completed", "failed"})

\* C30: no GenerationJob row has a prompt that is empty or holds only
\* whitespace.
C30_NoEmptyPromptRow ==
    \A i \in 1..Len(prompt_rows) : strip(prompt_rows[i].prompt) # <<>>

====
